---------------------------- MODULE Spec2Model ----------------------------
(***************************************************************************)
(* Verification model of the corporate-news-extraction repository:         *)
(*   src/article_content_extractor.py  (ArticleExtractor, SoupCleaner)     *)
(*   src/news_url_extractor.py         (NewsGroupFinder)                   *)
(*                                                                         *)
(* Every subsystem has its own specification (SpecPrune, SpecContent, ...) *)
(* over the shared variables; a specification pins the variables of the    *)
(* other subsystems to Nil.                                                *)
(*                                                                         *)
(* Documents are trees of elements.  The elements of a document are        *)
(* numbered 1..n in document order (the order of soup.find_all()), node 0  *)
(* is the BeautifulSoup object itself, and parent[i] < i.                  *)
(***************************************************************************)
EXTENDS Integers, Sequences, FiniteSets, TLC

VARIABLES
    pc,                  \* position of the running pipeline
    original_soup,       \* SoupCleaner.original_soup: the labeled document
    clean_soup,          \* SoupCleaner.clean_soup: the pruned deep copy, or Nil
    verify_result,       \* value returned by SoupCleaner.verify_clean_soup, or Nil
    soup,                \* ArticleExtractor.soup: the addressed document being marked
    content_type,        \* the ali-zx9v8k2m4p-content-type attribute of each element
    skip_remaining,      \* _mark_content: the halt flag of the walk
    processed_elements,  \* _mark_content: identifiers of the elements visited
    target_idx,          \* _mark_content: position in content.find_all(target_tags)
    date_label,          \* the element carrying ali-zx9v8k2m4p-date-type, with its parsed date
    candidate_dates,     \* _mark_date: the scored candidates of the text scan
    title_label,         \* the element carrying ali-zx9v8k2m4p-title-type
    client_side_pagination, \* NewsGroupFinder.client_side_pagination
    news_groups,         \* _process_page_content: the snapshots whose group was appended
    max_attempts,        \* _process_page_content: its parameter
    attempts,            \* _process_page_content: successful navigations so far
    initial_group,       \* _process_page_content: find_news_group on the first snapshot
    group,               \* _process_page_content: find_news_group after a navigation
    page_no,             \* the driver: number of the snapshot page_source returns
    load_more_calls,     \* the driver: calls of handle_load_more
    pagination_calls,    \* the driver: calls of handle_pagination
    df,                  \* find_news_group: self.df, one row per anchor group
    news_candidates,     \* find_news_group: self.news_candidates, as rows of df
    news_result,         \* find_news_group: what it returns or raises
    article_url,         \* extract_article: its argument
    exception,           \* extract_article: the exception raised inside its try block
    extract_result,      \* extract_article: what it returns
    labeled,             \* extract_article: the <<attribute, element>> pairs of the title and date labels
    select_options,      \* the page: the option texts of its select element, <<>> without one
    handled,             \* find_all_news_groups: what _handle_cloudflare returned
    year_idx,            \* find_all_news_groups: position of `for year in years`, 0 outside it
    current_year,        \* the browser: the option _select_year selected last
    select_calls,        \* the calls of _select_year: argument and result
    page_loops,          \* the selection in force at each call of _process_page_content
    discover_result,     \* find_all_news_groups: what it returns or raises
    driver,              \* NewsGroupFinder.driver: "open" or "quit"
    page_source,         \* the snapshot driver.page_source returns, as parsed
    text_element,        \* _is_boilerplate: its argument element
    boilerplate_result,  \* _is_boilerplate: what it returns or raises
    second_soup,         \* the input of a second run (find_news_group on
                         \* a second snapshot, a second SoupCleaner)
    second_result        \* what the second run returns or raises

pruneVars   == <<original_soup, clean_soup, verify_result>>
contentVars == <<soup, content_type, skip_remaining, processed_elements, target_idx>>

dateVars    == <<date_label, candidate_dates>>
titleVars   == <<title_label>>
pageVars    == <<client_side_pagination, news_groups, max_attempts, attempts,
                 initial_group, group, page_no, load_more_calls,
                 pagination_calls>>
groupVars   == <<df, news_candidates, news_result>>
finderVars  == <<pageVars, groupVars>>
extractVars == <<article_url, exception, extract_result, labeled>>
discoverVars == <<select_options, handled, year_idx, current_year,
                  select_calls, page_loops, discover_result, driver>>
addressVars == <<page_source>>
boilerVars  == <<text_element, boilerplate_result>>
lateVars    == <<second_soup, second_result>>
moreVars    == <<extractVars, discoverVars, addressVars, boilerVars, lateVars>>

vars == <<pc, pruneVars, contentVars, dateVars, titleVars, finderVars, moreVars>>

Nil == "None"

PruneIdle ==
    original_soup = Nil /\ clean_soup = Nil /\ verify_result = Nil
ContentIdle ==
    /\ soup = Nil /\ content_type = Nil /\ skip_remaining = Nil
    /\ processed_elements = Nil /\ target_idx = Nil
DateIdle ==
    date_label = Nil /\ candidate_dates = Nil
TitleIdle ==
    title_label = Nil
PageIdle ==
    /\ client_side_pagination = Nil /\ news_groups = Nil
    /\ max_attempts = Nil /\ attempts = Nil
    /\ initial_group = Nil /\ group = Nil /\ page_no = Nil
    /\ load_more_calls = Nil /\ pagination_calls = Nil
GroupIdle ==
    df = Nil /\ news_candidates = Nil /\ news_result = Nil
FinderIdle ==
    PageIdle /\ GroupIdle
ExtractIdle ==
    /\ article_url = Nil /\ exception = Nil /\ extract_result = Nil /\ labeled = Nil
DiscoverIdle ==
    /\ select_options = Nil /\ handled = Nil /\ year_idx = Nil
    /\ current_year = Nil /\ select_calls = Nil /\ page_loops = Nil
    /\ discover_result = Nil /\ driver = Nil
AddressIdle ==
    page_source = Nil
BoilerIdle ==
    text_element = Nil /\ boilerplate_result = Nil
LateIdle ==
    second_soup = Nil /\ second_result = Nil
MoreIdle ==
    ExtractIdle /\ DiscoverIdle /\ AddressIdle /\ BoilerIdle /\ LateIdle

(***************************************************************************)
(* Bounds of the model.                                                    *)
(***************************************************************************)
MaxPruneNodes == 3
MaxBlocks == 3
MaxMetas == 2
MaxTexts == 2
MaxAnchors == 5
MaxAttempts == 2
MaxSections == 2

(***************************************************************************)
(* Trees in document order.                                                *)
(***************************************************************************)
RECURSIVE AncestorsOf(_, _)
\* The proper ancestors of node i (the soup object 0 included): element.parents
AncestorsOf(parent, i) ==
    IF i = 0 THEN {} ELSE {parent[i]} \cup AncestorsOf(parent, parent[i])

\* The parent functions of the n-element documents: the numbering is the
\* document (pre-)order, so the parent of i+1 is i or an ancestor of i.
Forests(n) ==
    {p \in [1..n -> 0..(n-1)] :
        \A i \in 1..n :
            /\ p[i] < i
            /\ i > 1 => p[i] \in ({i-1} \cup AncestorsOf(p, i-1))}

\* element.find_all(True): the proper descendants of e
Descendants(parent, n, e) == {d \in 1..n : e \in AncestorsOf(parent, d)}

\* element.children (elements only)
ChildrenOf(parent, n, e) == {c \in 1..n : parent[c] = e}

\* A mutant of the identifier: the index is halved
NodeIdHalved(i) == (i - 1) \div 2

\* The identifier _label_elements gives the idx-th element of find_all()
NodeId(i) == i - 1

(***************************************************************************)
(* SoupCleaner                                                             *)
(***************************************************************************)
TitleType   == "ali-zx9v8k2m4p-title-type"
DateType    == "ali-zx9v8k2m4p-date-type"
ContentType == "ali-zx9v8k2m4p-content-type"
MetaType    == "ali-zx9v8k2m4p-metadate_type"

content_labels ==
    {TitleType, DateType, ContentType, MetaType,
     "ali-zx9v8k2m4p-table_header_p9m2", "ali-zx9v8k2m4p-table_cell_p9m2"}

structural_tags ==
    {"html", "head", "body", "main", "article",
     "style", "script", "link", "meta",
     "nav", "header", "footer",
     "button", "form"}

\* The tags and label attributes the documents of SpecPrune are drawn from.
PruneTags == {"body", "nav", "div"}
PruneLabelSets == {{}, {ContentType}, {TitleType, DateType}}

\* A labeled document: n elements, the parent and tag name of each, its label
\* attributes (those with a non-empty value) and the elements present in it.
PruneDocuments(n) ==
    {[n |-> n, parent |-> p, name |-> t, labels |-> l, present |-> 1..n] :
        p \in Forests(n),
        t \in [1..n -> PruneTags],
        l \in [1..n -> PruneLabelSets]}

\* A mutant of _should_keep_element: the content label is not in its list
ShouldKeepNoContent(doc, e) ==
    \E label \in content_labels \ {ContentType} : label \in doc.labels[e]

\* _should_keep_element
ShouldKeepElement(doc, e) ==
    \E label \in content_labels : label \in doc.labels[e]

\* _has_labeled_descendant
HasLabeledDescendant(doc, e) ==
    \E desc \in Descendants(doc.parent, doc.n, e) \cap doc.present :
        \E label \in content_labels : label \in doc.labels[desc]

\* _is_structural_element
IsStructuralElement(doc, e) == doc.name[e] \in structural_tags

\* A mutant of _process_element: case 3 does not process the children
ProcessElementNoRecursion(doc, element) ==
    IF ShouldKeepElement(doc, element) THEN {}
    ELSE IF ~HasLabeledDescendant(doc, element)
         THEN IF ~IsStructuralElement(doc, element)
              THEN ({element} \cup Descendants(doc.parent, doc.n, element))
                       \cap doc.present
              ELSE {}
         ELSE {}

RECURSIVE ProcessElementSkipping(_, _)
RECURSIVE ChildrenSkipping(_, _, _)
\* the children loop without list(): after a child is decomposed the
\* iteration misses the sibling that follows it
ChildrenSkipping(doc, kids, skip) ==
    IF kids = {} THEN {}
    ELSE LET child == CHOOSE c \in kids : \A d \in kids : c <= d
             rest == kids \ {child}
         IN  IF skip THEN ChildrenSkipping(doc, rest, FALSE)
             ELSE LET gone == ProcessElementSkipping(doc, child)
                  IN  gone \cup ChildrenSkipping(doc, rest, child \in gone)

\* A mutant of _process_element: `for child in element.children`
ProcessElementSkipping(doc, element) ==
    IF ShouldKeepElement(doc, element) THEN {}
    ELSE IF ~HasLabeledDescendant(doc, element)
         THEN IF ~IsStructuralElement(doc, element)
              THEN ({element} \cup Descendants(doc.parent, doc.n, element))
                       \cap doc.present
              ELSE {}
         ELSE ChildrenSkipping(doc,
                  ChildrenOf(doc.parent, doc.n, element) \cap doc.present, FALSE)

RECURSIVE ProcessElement(_, _)
\* _process_element: the set of elements it decomposes
ProcessElement(doc, element) ==
    IF ShouldKeepElement(doc, element) THEN {}
    ELSE IF ~HasLabeledDescendant(doc, element)
         THEN IF ~IsStructuralElement(doc, element)
              THEN ({element} \cup Descendants(doc.parent, doc.n, element))
                       \cap doc.present
              ELSE {}
         ELSE UNION {ProcessElement(doc, child) :
                        child \in ChildrenOf(doc.parent, doc.n, element)
                                     \cap doc.present}

\* soup.find('body'): the first body element in document order, 0 if none
FindBody(doc) ==
    IF \E e \in doc.present : doc.name[e] = "body"
    THEN CHOOSE e \in doc.present :
            /\ doc.name[e] = "body"
            /\ \A f \in doc.present : f < e => doc.name[f] # "body"
    ELSE 0

\* The deep copy of the document with the decomposed elements taken out
CleanCopy(doc) ==
    LET body == FindBody(doc)
        gone == IF body # 0 THEN ProcessElement(doc, body) ELSE {}
    IN  [doc EXCEPT !.present = doc.present \ gone]

\* the identifiers of the elements that carry the attribute `label`
LabeledIds(doc, present, label) ==
    {NodeId(e) : e \in {x \in present : label \in doc.labels[x]}}

\* verify_clean_soup's loop over content_labels
VerifyLabels(orig, clean) ==
    \A label \in content_labels :
        LabeledIds(orig, 1..orig.n, label) = LabeledIds(clean, clean.present, label)

PruneInit ==
    /\ pc = "labeled"
    /\ original_soup \in PruneDocuments(MaxPruneNodes)
    /\ clean_soup = Nil
    /\ verify_result = Nil
    /\ ContentIdle
    /\ DateIdle
    /\ TitleIdle
    /\ FinderIdle
    /\ MoreIdle

\* SoupCleaner.create_clean_soup
CreateCleanSoup ==
    /\ pc = "labeled"
    /\ clean_soup' = CleanCopy(original_soup)
    /\ pc' = "cleaned"
    /\ UNCHANGED <<original_soup, verify_result, contentVars, dateVars, titleVars, finderVars, moreVars>>

\* SoupCleaner.verify_clean_soup (clean_soup already made)
VerifyCleanSoup ==
    /\ pc = "cleaned"
    /\ verify_result' = VerifyLabels(original_soup, clean_soup)
    /\ pc' = "verified"
    /\ UNCHANGED <<original_soup, clean_soup, contentVars, dateVars, titleVars, finderVars, moreVars>>

PruneNext == CreateCleanSoup \/ VerifyCleanSoup

SpecPrune == PruneInit /\ [][PruneNext]_vars

(***************************************************************************)
(* Claims about SoupCleaner                                                *)
(***************************************************************************)
Pruned == pc \in {"cleaned", "verified"}

\* the elements of a document that carry the attribute `label`
Carrying(doc, label) == {e \in doc.present : label \in doc.labels[e]}

HasAnyLabel(doc, e) == doc.labels[e] \cap content_labels # {}

\* e has a labeled descendant among the elements present in doc
HasPresentLabeledDescendant(doc, e) ==
    \E d \in Descendants(doc.parent, doc.n, e) \cap doc.present : HasAnyLabel(doc, d)

\* e lies in the subtree of the body element create_clean_soup starts from
InBody(doc, e) ==
    /\ FindBody(doc) # 0
    /\ e = FindBody(doc) \/ FindBody(doc) \in AncestorsOf(doc.parent, e)

\* C1: after create_clean_soup the elements carrying each label attribute in
\* the clean copy are those carrying it in the labeled original, and
\* verify_clean_soup returns True.
C1_PrunePreservesLabels ==
    /\ Pruned => \A label \in content_labels :
                    Carrying(clean_soup, label) = Carrying(original_soup, label)
    /\ pc = "verified" => verify_result = TRUE

\* C1 witness: a verified prune that went through a scaffolding element,
\* kept a labeled element below it and removed another element.
C1_Witness ==
    /\ pc = "verified"
    /\ verify_result = TRUE
    /\ clean_soup.present # original_soup.present
    /\ \E e \in clean_soup.present :
            /\ HasAnyLabel(clean_soup, e)
            /\ InBody(clean_soup, e)
            /\ e # FindBody(clean_soup)

\* C2 as stated: the clean copy has no element that lacks a label, a labeled
\* descendant and a structural tag.
C2_Original ==
    Pruned => \A e \in clean_soup.present :
                \/ HasAnyLabel(clean_soup, e)
                \/ HasPresentLabeledDescendant(clean_soup, e)
                \/ clean_soup.name[e] \in structural_tags

\* e is kept without being looked at: it lies below an element of the body
\* subtree that is labeled (case 1) or that is structural and has no labeled
\* descendant (case 2)
KeptVerbatim(doc, e) ==
    \E a \in AncestorsOf(doc.parent, e) \ {0} :
        /\ InBody(doc, a)
        /\ \/ HasAnyLabel(doc, a)
           \/ /\ doc.name[a] \in structural_tags
              /\ ~HasPresentLabeledDescendant(doc, a)

\* C2 amended: inside the body subtree, an element of the clean copy that
\* lacks a label, a labeled descendant and a structural tag lies below a
\* labeled element or below a structural element without labeled descendant.
C2_PruneReduces ==
    Pruned => \A e \in clean_soup.present :
                InBody(clean_soup, e) =>
                    \/ HasAnyLabel(clean_soup, e)
                    \/ HasPresentLabeledDescendant(clean_soup, e)
                    \/ clean_soup.name[e] \in structural_tags
                    \/ KeptVerbatim(clean_soup, e)

\* C2 witness: a prune that removed an unlabeled element of the body and
\* kept a labeled one.
C2_Witness ==
    /\ Pruned
    /\ \E e \in original_soup.present \ clean_soup.present :
            InBody(original_soup, e)
    /\ \E e \in clean_soup.present :
            HasAnyLabel(clean_soup, e) /\ InBody(clean_soup, e)

(***************************************************************************)
(* ArticleExtractor._mark_content                                          *)
(*                                                                         *)
(* The document is the subtree of the content container (node 0), given as *)
(* sequences over its elements in document order.  extract_article wraps   *)
(* every non-empty text node in an ali-tx9v8k2m4p element before marking,  *)
(* so only those wrappers have direct text, and they have no class.        *)
(***************************************************************************)
TextTag == "ali-tx9v8k2m4p"

ContentValue     == "qw7x_article_content_p9m2"
TableValue       == "qw7x_article_table_p9m2"
TableHeaderValue == "qw7x_table_header_p9m2"
TableCellValue   == "qw7x_table_cell_p9m2"

target_tags == {"p", "h2", "h3", "h4", "ul", "ol", "table", "blockquote"}

\* The texts of the model and the patterns of _is_boilerplate each matches
\* (re.search on the text for basic_patterns, on text.strip().lower() for
\* the section header patterns).
PlainText       == "Quarterly revenue rose 12 percent"
BasicText       == "Follow us on social media"
StrictText      == "Forward-Looking Statements"
StrictBasicText == "About our privacy policy"
LenientText     == "This release contains forward-looking statements"

Texts == {PlainText, BasicText, StrictText, StrictBasicText, LenientText}

MatchesBasic(text)   == text \in {BasicText, StrictBasicText}
MatchesStrict(text)  == text \in {StrictText, StrictBasicText}
MatchesLenient(text) == text \in {StrictText, StrictBasicText, LenientText}

\* The style and class attributes of an element, as far as _is_boilerplate
\* reads them: none, style="font-weight: bold", a class without a token
\* containing "bold", a class with such a token.
NoAttr == "none"
BoldStyle == "style=font-weight: bold"
PlainClass == "class=lead"
BoldClass == "class=text-bold"

HasClass(attr) == attr \in {PlainClass, BoldClass}

\* tag name and attributes of element.parent (node 0 is the container)
ParentName(doc, e) == IF doc.parent[e] = 0 THEN "article" ELSE doc.name[doc.parent[e]]
ParentAttr(doc, e) == IF doc.parent[e] = 0 THEN NoAttr ELSE doc.attr[doc.parent[e]]

\* The bold condition of the lenient section header check: "True", "False",
\* or "TypeError" when element.get('class') is None and is iterated.
BoldCondition(doc, e) ==
    IF ParentName(doc, e) \in {"b", "strong"} THEN "True"
    ELSE IF ParentAttr(doc, e) = BoldStyle THEN "True"
    ELSE IF HasClass(ParentAttr(doc, e))
         THEN IF HasClass(doc.attr[e])
              THEN IF doc.attr[e] = BoldClass THEN "True" ELSE "False"
              ELSE "TypeError"
         ELSE "False"

\* A mutant of _is_boilerplate: the strict section headers are not checked
IsBoilerplateNoStrict(doc, e) ==
    LET text == doc.text[e]
        bold == IF MatchesLenient(text) THEN BoldCondition(doc, e) ELSE "False"
    IN  IF MatchesBasic(text) THEN "boilerplate"
        ELSE IF bold = "TypeError" THEN "TypeError"
        ELSE IF bold = "True" THEN "section_header"
        ELSE "content"

\* A mutant of _is_boilerplate: a strict section header counts only when
\* the bold condition holds as well
IsBoilerplateStrictIfBold(doc, e) ==
    LET text == doc.text[e]
        bold == IF MatchesLenient(text) THEN BoldCondition(doc, e) ELSE "False"
    IN  IF MatchesBasic(text) THEN "boilerplate"
        ELSE IF bold = "TypeError" THEN "TypeError"
        ELSE IF bold = "True" THEN "section_header"
        ELSE "content"

\* _is_boilerplate(direct_text, element): (True, False) is "boilerplate",
\* (False, True) is "section_header", (False, False) is "content"
IsBoilerplate(doc, e) ==
    LET text == doc.text[e]
        is_strict_section_header == MatchesStrict(text)
        bold == IF MatchesLenient(text) THEN BoldCondition(doc, e) ELSE "False"
    IN  IF MatchesBasic(text) THEN "boilerplate"
        ELSE IF bold = "TypeError" THEN "TypeError"
        ELSE IF is_strict_section_header \/ bold = "True" THEN "section_header"
        ELSE "content"

RECURSIVE SortedSeq(_)
\* a set of elements as the sequence in document order
SortedSeq(S) ==
    IF S = {} THEN <<>>
    ELSE LET m == CHOOSE x \in S : \A y \in S : x <= y
         IN  <<m>> \o SortedSeq(S \ {m})

DocSize(doc) == Len(doc.parent)

\* element.get_text(strip=True) is not empty
HasText(doc, e) ==
    \E d \in {e} \cup Descendants(doc.parent, DocSize(doc), e) : doc.text[d] # Nil

\* _mark_table: the cells it marks and whether the table has content
TableCells(doc, table, tag) ==
    {c \in Descendants(doc.parent, DocSize(doc), table) :
        doc.name[c] = tag /\ HasText(doc, c)}

\* The walk state: st.skip, st.processed, st.ctype and st.fault (an
\* exception left _mark_content).
MarkTable(doc, st, table) ==
    LET ths == TableCells(doc, table, "th")
        tds == TableCells(doc, table, "td")
        has_content == ths \cup tds # {}
    IN  [st EXCEPT
            !.ctype = [e \in DOMAIN st.ctype |->
                         IF e = table /\ has_content THEN TableValue
                         ELSE IF e \in tds THEN TableCellValue
                         ELSE IF e \in ths THEN TableHeaderValue
                         ELSE st.ctype[e]],
            !.processed = IF has_content THEN @ \cup {NodeId(table)} ELSE @]

\* A mutant of the guard of table marking: skip_remaining is not read
MarksTablesAlways(skip) == TRUE

\* `if not skip_remaining:` before self._mark_table
MarksTables(skip) == ~skip

RECURSIVE ProcessElementRecursively(_, _, _)
RECURSIVE ProcessChildren(_, _, _)

\* the loop over element.children of process_element_recursively
ProcessChildren(doc, st, kids) ==
    IF kids = <<>> \/ st.fault THEN st
    ELSE LET child == Head(kids)
             st1 == IF doc.name[child] = "table"
                    THEN IF MarksTables(st.skip) THEN MarkTable(doc, st, child)
                         ELSE st
                    ELSE ProcessElementRecursively(doc, st, child)
         IN  ProcessChildren(doc, st1, Tail(kids))

\* process_element_recursively
ProcessElementRecursively(doc, st, element) ==
    IF st.skip THEN st
    ELSE IF NodeId(element) \in st.processed THEN st
    ELSE LET st0  == [st EXCEPT !.processed = @ \cup {NodeId(element)}]
             kids == SortedSeq(ChildrenOf(doc.parent, DocSize(doc), element))
             kind == IF doc.text[element] # Nil THEN IsBoilerplate(doc, element)
                     ELSE "no direct text"
         IN  CASE kind = "TypeError"      -> [st0 EXCEPT !.fault = TRUE]
               [] kind = "section_header" -> [st0 EXCEPT !.skip = TRUE]
               [] kind = "content" ->
                    ProcessChildren(doc,
                        [st0 EXCEPT !.ctype[element] = ContentValue], kids)
               [] OTHER -> ProcessChildren(doc, st0, kids)

\* content.find_all(target_tags), in document order
Targets(doc) == SortedSeq({e \in 1..DocSize(doc) : doc.name[e] \in target_tags})

\* A mutant of the table test: no element counts as part of a table
InTableNever(doc, e) == FALSE

\* any(parent.name == 'table' for parent in element.parents)
InTable(doc, e) ==
    \E a \in AncestorsOf(doc.parent, e) \ {0} : doc.name[a] = "table"

\* one iteration of the loop over content.find_all(target_tags)
ProcessTarget(doc, st, element) ==
    IF NodeId(element) \in st.processed THEN st
    ELSE IF doc.name[element] = "table" \/ InTable(doc, element)
         THEN IF doc.name[element] = "table" /\ MarksTables(st.skip)
              THEN MarkTable(doc, st, element)
              ELSE st
         ELSE ProcessElementRecursively(doc, st, element)

(***************************************************************************)
(* The documents of SpecContent: a sequence of blocks below the container. *)
(***************************************************************************)
Block(parent, name, text, attr) ==
    [parent |-> parent, name |-> name, text |-> text, attr |-> attr]

\* <p attr>text</p>
Para(text, attr) ==
    Block(<<0, 1>>, <<"p", TextTag>>, <<Nil, text>>, <<attr, NoAttr>>)
\* <p><b>text</b></p>
BoldPara(text) ==
    Block(<<0, 1, 2>>, <<"p", "b", TextTag>>, <<Nil, Nil, text>>,
          <<NoAttr, NoAttr, NoAttr>>)
\* <div>text</div>: text outside every target tag
DivText(text) ==
    Block(<<0, 1>>, <<"div", TextTag>>, <<Nil, text>>, <<NoAttr, NoAttr>>)
\* <ul><li>first</li><li>second</li></ul>
List(first, second) ==
    Block(<<0, 1, 2, 1, 4>>, <<"ul", "li", TextTag, "li", TextTag>>,
          <<Nil, Nil, first, Nil, second>>,
          <<NoAttr, NoAttr, NoAttr, NoAttr, NoAttr>>)
\* <blockquote><p>text</p></blockquote>: a target inside a target
Quote(text) ==
    Block(<<0, 1, 2>>, <<"blockquote", "p", TextTag>>, <<Nil, Nil, text>>,
          <<NoAttr, NoAttr, NoAttr>>)
\* <table><th>Plain</th><td><p>Plain</p></td><td></td></table>
Table ==
    Block(<<0, 1, 2, 1, 4, 5, 1>>,
          <<"table", "th", TextTag, "td", "p", TextTag, "td">>,
          <<Nil, Nil, PlainText, Nil, Nil, PlainText, Nil>>,
          <<NoAttr, NoAttr, NoAttr, NoAttr, NoAttr, NoAttr, NoAttr>>)
\* <blockquote><table><td>Plain</td></table>text</blockquote>
QuoteTable(text) ==
    Block(<<0, 1, 2, 3, 1>>, <<"blockquote", "table", "td", TextTag, TextTag>>,
          <<Nil, Nil, Nil, PlainText, text>>,
          <<NoAttr, NoAttr, NoAttr, NoAttr, NoAttr>>)

Blocks ==
    {Para(PlainText, NoAttr), Para(BasicText, NoAttr),
     Para(StrictBasicText, NoAttr),
     Para(StrictText, NoAttr), Para(StrictText, PlainClass),
     Para(LenientText, NoAttr), Para(LenientText, BoldStyle),
     Para(LenientText, BoldClass), Para(LenientText, PlainClass),
     BoldPara(LenientText), DivText(StrictText),
     List(StrictText, PlainText), Quote(PlainText),
     Table, QuoteTable(PlainText)}

EmptyDocument == Block(<<>>, <<>>, <<>>, <<>>)

AppendBlock(doc, b) ==
    LET base == Len(doc.parent)
    IN  [parent |-> doc.parent \o
                      [i \in 1..Len(b.parent) |->
                          IF b.parent[i] = 0 THEN 0 ELSE b.parent[i] + base],
         name |-> doc.name \o b.name,
         text |-> doc.text \o b.text,
         attr |-> doc.attr \o b.attr]

RECURSIVE Assemble(_)
Assemble(blocks) ==
    IF blocks = <<>> THEN EmptyDocument
    ELSE AppendBlock(Assemble(SubSeq(blocks, 1, Len(blocks) - 1)),
                     blocks[Len(blocks)])

ContentDocuments(n) ==
    {Assemble(bs) : bs \in UNION {[1..k -> Blocks] : k \in 0..n}}

ContentInit ==
    /\ pc = "addressed"
    /\ soup \in ContentDocuments(MaxBlocks)
    /\ content_type = [e \in 1..DocSize(soup) |-> Nil]
    /\ skip_remaining = Nil
    /\ processed_elements = Nil
    /\ target_idx = Nil
    /\ PruneIdle
    /\ DateIdle
    /\ TitleIdle
    /\ FinderIdle
    /\ MoreIdle

WalkState ==
    [skip |-> skip_remaining, processed |-> processed_elements,
     ctype |-> content_type, fault |-> FALSE]

\* _mark_content up to the loop: the container is found, the walk starts
MarkContentBegin ==
    /\ pc = "addressed"
    /\ skip_remaining' = FALSE
    /\ processed_elements' = {}
    /\ target_idx' = 1
    /\ pc' = "walking"
    /\ UNCHANGED <<soup, content_type, pruneVars, dateVars, titleVars, finderVars, moreVars>>

\* one iteration of `for element in content.find_all(target_tags)`
MarkContentStep ==
    /\ pc = "walking"
    /\ target_idx <= Len(Targets(soup))
    /\ LET st == ProcessTarget(soup, WalkState, Targets(soup)[target_idx])
       IN  /\ skip_remaining' = st.skip
           /\ processed_elements' = st.processed
           /\ content_type' = st.ctype
           /\ pc' = IF st.fault THEN "failed" ELSE "walking"
    /\ target_idx' = target_idx + 1
    /\ UNCHANGED <<soup, pruneVars, dateVars, titleVars, finderVars, moreVars>>

\* the loop is over: _mark_content returns
MarkContentEnd ==
    /\ pc = "walking"
    /\ target_idx > Len(Targets(soup))
    /\ pc' = "marked"
    /\ UNCHANGED <<contentVars, pruneVars, dateVars, titleVars, finderVars, moreVars>>

ContentNext == MarkContentBegin \/ MarkContentStep \/ MarkContentEnd

SpecContent == ContentInit /\ [][ContentNext]_vars

(***************************************************************************)
(* Claims about _mark_content                                              *)
(***************************************************************************)
Walking == pc \in {"walking", "marked", "failed"}

\* element b was visited by the walk and its direct text is `text`
Encountered(b) ==
    /\ soup.text[b] # Nil
    /\ NodeId(b) \in processed_elements

NoContentAfter(b) ==
    \A e \in (b+1)..DocSize(soup) : content_type[e] # ContentValue

\* C3 as stated: once an element whose text is a strict section-boundary
\* phrase has been encountered, no element later in document order has the
\* content label.
C3_Original ==
    Walking => \A b \in 1..DocSize(soup) :
                  Encountered(b) /\ MatchesStrict(soup.text[b]) => NoContentAfter(b)

\* C3 amended: once an element whose text is a strict section-boundary
\* phrase that contains no basic boilerplate phrase has been encountered, no
\* element later in document order has the content label.
C3_SectionTruncation ==
    Walking => \A b \in 1..DocSize(soup) :
                  /\ Encountered(b)
                  /\ MatchesStrict(soup.text[b])
                  /\ ~MatchesBasic(soup.text[b])
                  => NoContentAfter(b)

\* C3 witness: the walk is over, it labeled an element, then met the strict
\* phrase, and a later paragraph with ordinary text is left without label.
C3_Witness ==
    /\ pc = "marked"
    /\ skip_remaining = TRUE
    /\ \E a, b, e \in 1..DocSize(soup) :
          /\ a < b /\ b < e
          /\ content_type[a] = ContentValue
          /\ Encountered(b) /\ soup.text[b] = StrictText
          /\ soup.text[e] = PlainText
          /\ soup.name[soup.parent[e]] = "p"
          /\ ~InTable(soup, e)
          /\ content_type[e] = Nil

(***************************************************************************)
(* ArticleExtractor._mark_date                                             *)
(*                                                                         *)
(* The document is given by what _mark_date reads of it: the meta elements *)
(* in document order (property and content), the string of the first       *)
(* application/ld+json script, and the wrapped text nodes in document      *)
(* order, each with the first match of every date pattern in its text and  *)
(* the surroundings the score is computed from.                            *)
(***************************************************************************)
\* datetime.now(), as year, month, day: the text patterns hold no time of
\* day, so a parsed date is after now iff its day is after today
ProcessingDay == <<2025, 6, 15>>

\* dateutil.parser.parse on the strings of the model; Nil: it raises
ParseDate(str) ==
    CASE str = "2024-03-01T10:00:00Z" -> <<2024, 3, 1>>
      [] str = "2031-07-01T10:00:00Z" -> <<2031, 7, 1>>
      [] str = "2025-06-15"           -> <<2025, 6, 15>>
      [] str = "2031-01-01"           -> <<2031, 1, 1>>
      [] str = "03/05/2024"           -> <<2024, 3, 5>>
      [] str = "January 3, 2031"      -> <<2031, 1, 3>>
      [] OTHER                        -> Nil

\* A mutant of the future check: no date is in the future
IsFutureNever(date) == FALSE

\* parsed_date > datetime.now()
IsFuture(date) ==
    \/ date[1] > ProcessingDay[1]
    \/ date[1] = ProcessingDay[1] /\ date[2] > ProcessingDay[2]
    \/ date[1] = ProcessingDay[1] /\ date[2] = ProcessingDay[2]
                                  /\ date[3] > ProcessingDay[3]

\* date_patterns, and the strings of the model each pattern matches
date_patterns == <<"\\d{4}-\\d{2}-\\d{2}", "\\d{1,2}/\\d{1,2}/\\d{2,4}",
                   "(Jan|Feb|...|Dec)[a-z]* \\d{1,2},? \\d{4}">>
PatternMatches(p) ==
    CASE p = 1 -> {"2025-06-15", "2031-01-01"}
      [] p = 2 -> {"03/05/2024"}
      [] p = 3 -> {"January 3, 2031"}

\* A mutant of the published-time test: og:published_time is not in the list
IsPublishedArticleOnly(property) == property = "article:published_time"

\* meta.get('property') in ['article:published_time', 'og:published_time']
IsPublishedProperty(property) ==
    property \in {"article:published_time", "og:published_time"}

\* has_news_date_class on the parent or an ancestor, and a publication
\* indicator in the parent's text
Surroundings ==
    {[news_date_class |-> FALSE, pub_indicator |-> FALSE],
     [news_date_class |-> TRUE,  pub_indicator |-> FALSE],
     [news_date_class |-> TRUE,  pub_indicator |-> TRUE]}

Score(around) ==
    (IF around.news_date_class THEN 5 ELSE 0) + (IF around.pub_indicator THEN 5 ELSE 0)

MetaElements ==
    {[property |-> p, content |-> c] :
        p \in {"article:published_time", "og:published_time", "og:title"},
        c \in {"2031-07-01T10:00:00Z", "soon", Nil}}

\* schema.string of the JSON-LD script: Nil (no script), no datePublished,
\* a datePublished that parses, one that does not
SchemaDates == {Nil, "{}", "2024-03-01T10:00:00Z", "soon"}
SchemaDatePublished(schema) == IF schema \in {Nil, "{}"} THEN Nil ELSE schema

TextNodes ==
    {[first |-> f, around |-> a] :
        f \in {g \in [1..3 -> {Nil} \cup UNION {PatternMatches(p) : p \in 1..3}] :
                 \A p \in 1..3 : g[p] # Nil => g[p] \in PatternMatches(p)},
        a \in Surroundings}

SeqsUpTo(S, n) == UNION {[1..k -> S] : k \in 0..n}

\* text nodes with one date, for the documents that also carry metadata
SingleDateNodes ==
    {t \in TextNodes : Cardinality({p \in 1..3 : t.first[p] # Nil}) = 1
                       /\ t.around.pub_indicator}

DateDocuments(metas, texts) ==
    {[metas |-> m, schema |-> j, texts |-> t] :
        m \in SeqsUpTo(MetaElements, metas), j \in SchemaDates,
        t \in SeqsUpTo(SingleDateNodes, 1)}
    \cup
    {[metas |-> <<>>, schema |-> Nil, texts |-> t] :
        t \in SeqsUpTo(TextNodes, texts)}

\* the first published-time meta whose content parses, 0 if none
FirstParsedMeta(doc) ==
    LET ok == {i \in 1..Len(doc.metas) :
                 /\ IsPublishedProperty(doc.metas[i].property)
                 /\ doc.metas[i].content # Nil
                 /\ ParseDate(doc.metas[i].content) # Nil}
    IN  IF ok = {} THEN 0 ELSE CHOOSE i \in ok : \A j \in ok : i <= j

\* the candidates one pattern adds, text nodes k..n in document order
RECURSIVE ScanPattern(_, _, _)
ScanPattern(doc, p, k) ==
    IF k > Len(doc.texts) THEN <<>>
    ELSE LET node == doc.texts[k]
             date == IF node.first[p] = Nil THEN Nil ELSE ParseDate(node.first[p])
             here == IF date = Nil THEN <<>>
                     ELSE IF IsFuture(date) THEN <<>>
                     ELSE <<[date |-> date, element |-> k,
                             score |-> Score(node.around)]>>
         IN  here \o ScanPattern(doc, p, k + 1)

\* `for pattern in date_patterns: for text_node in text_nodes`
ScanTexts(doc) ==
    ScanPattern(doc, 1, 1) \o ScanPattern(doc, 2, 1) \o ScanPattern(doc, 3, 1)

\* A mutant of the selection: the last candidate of maximal score
BestCandidateLast(cands) ==
    cands[CHOOSE i \in 1..Len(cands) :
            /\ \A j \in 1..Len(cands) : cands[j].score <= cands[i].score
            /\ \A j \in (i+1)..Len(cands) : cands[j].score < cands[i].score]

\* max(candidate_dates, key=score): the first candidate of maximal score
BestCandidate(cands) ==
    cands[CHOOSE i \in 1..Len(cands) :
            /\ \A j \in 1..Len(cands) : cands[j].score <= cands[i].score
            /\ \A j \in 1..(i-1) : cands[j].score < cands[i].score]

\* no element carries the date label
NoDateLabel == [kind |-> "none", element |-> 0, parsed |-> <<>>]

DateInit ==
    /\ pc = "addressed"
    /\ soup \in DateDocuments(MaxMetas, MaxTexts)
    /\ date_label = NoDateLabel
    /\ candidate_dates = <<>>
    /\ PruneIdle
    /\ TitleIdle
    /\ FinderIdle
    /\ content_type = Nil /\ skip_remaining = Nil
    /\ processed_elements = Nil /\ target_idx = Nil
    /\ MoreIdle

DateFrame == UNCHANGED <<soup, pruneVars, titleVars, finderVars, moreVars, content_type,
                         skip_remaining, processed_elements, target_idx>>

\* the loop over soup.find_all('meta')
MarkDateMeta ==
    /\ pc = "addressed"
    /\ LET i == FirstParsedMeta(soup)
       IN  IF i # 0
           THEN /\ date_label' = [kind |-> "meta", element |-> i,
                                  parsed |-> ParseDate(soup.metas[i].content)]
                /\ pc' = "dated"
           ELSE /\ date_label' = date_label
                /\ pc' = "schema"
    /\ UNCHANGED candidate_dates
    /\ DateFrame

\* the application/ld+json script
MarkDateSchema ==
    /\ pc = "schema"
    /\ LET published == SchemaDatePublished(soup.schema)
       IN  IF published # Nil /\ ParseDate(published) # Nil
           THEN /\ date_label' = [kind |-> "schema", element |-> 1,
                                  parsed |-> ParseDate(published)]
                /\ pc' = "dated"
           ELSE /\ date_label' = date_label
                /\ pc' = "scan"
    /\ UNCHANGED candidate_dates
    /\ DateFrame

\* first pass: find all dates in the text nodes and score them
MarkDateScan ==
    /\ pc = "scan"
    /\ candidate_dates' = ScanTexts(soup)
    /\ pc' = "select"
    /\ UNCHANGED date_label
    /\ DateFrame

\* mark the highest scoring date
MarkDateSelect ==
    /\ pc = "select"
    /\ date_label' =
         IF candidate_dates # <<>>
         THEN LET best == BestCandidate(candidate_dates)
              IN  [kind |-> "text", element |-> best.element, parsed |-> best.date]
         ELSE date_label
    /\ pc' = "dated"
    /\ UNCHANGED candidate_dates
    /\ DateFrame

DateNext == MarkDateMeta \/ MarkDateSchema \/ MarkDateScan \/ MarkDateSelect

SpecDate == DateInit /\ [][DateNext]_vars

(***************************************************************************)
(* Claims about _mark_date                                                 *)
(***************************************************************************)
\* text node k holds a match that parses to a date after the processing time
ContainsFutureDate(k) ==
    \E p \in 1..3 :
        /\ soup.texts[k].first[p] # Nil
        /\ IsFuture(ParseDate(soup.texts[k].first[p]))

ContainsPastDate(k) ==
    \E p \in 1..3 :
        /\ soup.texts[k].first[p] # Nil
        /\ ~IsFuture(ParseDate(soup.texts[k].first[p]))

LabeledText(k) ==
    date_label.kind = "text" /\ date_label.element = k

\* C4 as stated: a text node that contains a date after the processing time
\* is never the node with the date label.
C4_Original ==
    \A k \in 1..Len(soup.texts) : ContainsFutureDate(k) => ~LabeledText(k)

\* C4 amended: the date stored with the label of a text node is never after
\* the processing time, and a text node whose date matches are all after the
\* processing time never has the date label.
C4_FutureRejection ==
    /\ date_label.kind = "text"
            => ~(date_label.parsed[1] > ProcessingDay[1]
                 \/ (date_label.parsed[1] = ProcessingDay[1] /\
                     date_label.parsed[2] > ProcessingDay[2])
                 \/ (date_label.parsed[1] = ProcessingDay[1] /\
                     date_label.parsed[2] = ProcessingDay[2] /\
                     date_label.parsed[3] > ProcessingDay[3]))
    /\ \A k \in 1..Len(soup.texts) :
            ContainsFutureDate(k) /\ ~ContainsPastDate(k) => ~LabeledText(k)

\* C4 witness: the scan is over; a node whose only date is in the future,
\* with the higher score, was passed over for a later node.
C4_Witness ==
    /\ pc = "dated"
    /\ \E j, k \in 1..Len(soup.texts) :
          /\ j < k
          /\ ContainsFutureDate(j) /\ ~ContainsPastDate(j)
          /\ Score(soup.texts[j].around) > Score(soup.texts[k].around)
          /\ LabeledText(k)

\* meta i has a published-time property and a content that parses as a date
ParsedPublishedMeta(i) ==
    /\ soup.metas[i].property \in {"article:published_time", "og:published_time"}
    /\ soup.metas[i].content \notin {Nil, "soon"}

\* C6: with a published-time meta whose content parses, _mark_date labels
\* that meta element (the first such) and returns: the JSON-LD script and
\* the text nodes are not reached, nothing is scored, nothing else labeled.
C6_MetaDateWins ==
    (\E i \in 1..Len(soup.metas) : ParsedPublishedMeta(i)) =>
        /\ pc \in {"addressed", "dated"}
        /\ candidate_dates = <<>>
        /\ pc = "dated" =>
              /\ date_label.kind = "meta"
              /\ date_label.element \in 1..Len(soup.metas)
              /\ ParsedPublishedMeta(date_label.element)
              /\ \A i \in 1..(date_label.element - 1) : ~ParsedPublishedMeta(i)

\* C6 witness: the meta date was taken although the JSON-LD script has a
\* date and a text node has a date with publication keywords.
C6_Witness ==
    /\ pc = "dated"
    /\ date_label.kind = "meta"
    /\ SchemaDatePublished(soup.schema) = "2024-03-01T10:00:00Z"
    /\ Len(soup.texts) = 1
    /\ soup.texts[1].first[2] = "03/05/2024"

(***************************************************************************)
(* ArticleExtractor._mark_title                                            *)
(*                                                                         *)
(* The document is given by the four elements _mark_title looks for, each  *)
(* Nil when the document has none, else the length of its text: the        *)
(* content of the og:title meta, the headline of the JSON-LD script, the   *)
(* text of the first h1 of the first article, the text of the first h1.    *)
(***************************************************************************)
TitleLimit == 200

\* soup.find(...) found no such element
Absent == -1

TitleLengths == {0, 50, 80, 199, 200}

TitleDocuments ==
    {d \in [{"og_title", "schema", "article_h1", "page_h1"} ->
                {Absent} \cup TitleLengths] :
        \* a document with an h1 inside an article has a first h1
        d["article_h1"] # Absent => d["page_h1"] # Absent}

\* title_candidates, in the order they are appended
TitleCandidates(doc) ==
    LET first == SelectSeq(<<"og_title", "schema", "article_h1">>,
                           LAMBDA src : doc[src] # Absent)
    IN  IF first # <<>> THEN first
        ELSE IF doc["page_h1"] # Absent THEN <<"page_h1">> ELSE <<>>

\* valid_titles
ValidTitles(doc) ==
    SelectSeq(TitleCandidates(doc),
              LAMBDA src : doc[src] > 0 /\ doc[src] < TitleLimit)

\* A mutant of the selection: the first valid candidate is taken
BestTitleFirst(doc) ==
    IF ValidTitles(doc) = <<>> THEN Nil ELSE ValidTitles(doc)[1]

\* max(valid_titles, key=len(text)): the first candidate of maximal length
BestTitle(doc) ==
    LET valid == ValidTitles(doc)
    IN  IF valid = <<>> THEN Nil
        ELSE valid[CHOOSE i \in 1..Len(valid) :
                      /\ \A j \in 1..Len(valid) : doc[valid[j]] <= doc[valid[i]]
                      /\ \A j \in 1..(i-1) : doc[valid[j]] < doc[valid[i]]]

TitleInit ==
    /\ pc = "addressed"
    /\ soup \in TitleDocuments
    /\ title_label = Nil
    /\ PruneIdle
    /\ DateIdle
    /\ FinderIdle
    /\ content_type = Nil /\ skip_remaining = Nil
    /\ processed_elements = Nil /\ target_idx = Nil
    /\ MoreIdle

\* _mark_title
MarkTitle ==
    /\ pc = "addressed"
    /\ title_label' = BestTitle(soup)
    /\ pc' = "titled"
    /\ UNCHANGED <<soup, pruneVars, dateVars, finderVars, moreVars, content_type,
                   skip_remaining, processed_elements, target_idx>>

TitleNext == MarkTitle

SpecTitle == TitleInit /\ [][TitleNext]_vars

(***************************************************************************)
(* Claims about _mark_title                                                *)
(***************************************************************************)
ValidLength(len) == len > 0 /\ len < 200

\* the label is on a source of the set whose text is valid and longest, or
\* on no element when the set has no valid source
LongestValidOf(sources) ==
    LET valid == {src \in sources : ValidLength(soup[src])}
    IN  IF valid = {} THEN title_label = Nil
        ELSE /\ title_label \in valid
             /\ \A src \in valid : soup[src] <= soup[title_label]

\* C5 as stated: the four sources are the candidates, and the label is on
\* the valid candidate with the longest text.
C5_Original ==
    pc = "titled" =>
        LongestValidOf({"og_title", "schema", "article_h1", "page_h1"})

\* C5 amended: the first h1 of the page is a candidate only when the
\* document has no og:title meta, no JSON-LD headline and no h1 inside an
\* article; the label is on the valid candidate with the longest text.
C5_LongestTitle ==
    pc = "titled" =>
        IF \E src \in {"og_title", "schema", "article_h1"} : soup[src] >= 0
        THEN LongestValidOf({"og_title", "schema", "article_h1"})
        ELSE LongestValidOf({"page_h1"})

\* C5 witness: a 50-character Open Graph title and an 80-character h1 inside
\* the article; the h1 has the label.
C5_Witness ==
    /\ pc = "titled"
    /\ soup["og_title"] = 50
    /\ soup["article_h1"] = 80
    /\ title_label = "article_h1"

(***************************************************************************)
(* NewsGroupFinder._process_page_content                                   *)
(*                                                                         *)
(* The browser is the environment: each snapshot is given by the group     *)
(* find_news_group returns on it (or None), and handle_load_more and       *)
(* handle_pagination succeed or not.  A group is the bag of its anchors,   *)
(* an anchor is given by what _is_element_hidden reads of it.  A snapshot  *)
(* is named by its number, and news_groups holds the numbers of the        *)
(* snapshots whose group was appended.                                     *)
(***************************************************************************)
\* a group returned by find_news_group has more than 4 URLs
MinAnchors == 5

\* style_none: the anchor's style has display:none; class_hidden: one of
\* its class tokens contains "hidden"; hidden_level: the nearest ancestor
\* with one of the two, counted from the parent (1), 0 if none
AnchorKinds ==
    {[style_none |-> FALSE, class_hidden |-> FALSE, hidden_level |-> 0],
     [style_none |-> FALSE, class_hidden |-> TRUE,  hidden_level |-> 0],
     [style_none |-> FALSE, class_hidden |-> FALSE, hidden_level |-> 3],
     [style_none |-> FALSE, class_hidden |-> FALSE, hidden_level |-> 4]}

\* _is_element_hidden
IsElementHidden(anchor) ==
    \/ anchor.style_none
    \/ anchor.class_hidden
    \/ \E level \in 1..3 : anchor.hidden_level = level

RECURSIVE BagCount(_, _)
\* the number of anchors of the kinds in S
BagCount(anchors, S) ==
    IF S = {} THEN 0
    ELSE LET k == CHOOSE x \in S : TRUE
         IN  anchors[k] + BagCount(anchors, S \ {k})

\* total_anchors and hidden_count
TotalAnchors(g) == BagCount(g.anchors, AnchorKinds)
HiddenCount(g)  == BagCount(g.anchors, {k \in AnchorKinds : IsElementHidden(k)})

\* find_news_group returned None
NoGroup == [found |-> FALSE, anchors |-> [k \in AnchorKinds |-> 0]]

\* the anchor without any hidden signal
PlainAnchor == [style_none |-> FALSE, class_hidden |-> FALSE, hidden_level |-> 0]

\* What find_news_group can return on a snapshot: None, or a group of
\* MinAnchors..MaxAnchors anchors of which some are of one kind and the
\* others plain.
Classifications ==
    {NoGroup} \cup
    {[found |-> TRUE,
      anchors |-> [k \in AnchorKinds |->
                     IF k = kind THEN size[2]
                     ELSE IF k = PlainAnchor THEN size[1] - size[2] ELSE 0]] :
        kind \in AnchorKinds \ {PlainAnchor},
        size \in {sz \in (MinAnchors..MaxAnchors) \X (0..MaxAnchors) :
                    sz[2] <= sz[1]}}

\* A mutant of the ratio test: a ratio of 0.6 counts as well
HiddenRatioAtLeast(g) == 10 * HiddenCount(g) >= 6 * TotalAnchors(g)

\* hidden_ratio > 0.6
HiddenRatioExceeds(g) == 10 * HiddenCount(g) > 6 * TotalAnchors(g)

PageInit ==
    /\ pc = "page_start"
    /\ client_side_pagination = FALSE
    /\ news_groups = <<>>
    /\ max_attempts \in 0..MaxAttempts
    /\ attempts = 0
    /\ initial_group = NoGroup
    /\ group = NoGroup
    /\ page_no = 1
    /\ load_more_calls = 0
    /\ pagination_calls = 0
    /\ PruneIdle
    /\ ContentIdle
    /\ DateIdle
    /\ TitleIdle
    /\ GroupIdle
    /\ MoreIdle

PageFrame == UNCHANGED <<pruneVars, contentVars, dateVars, titleVars, groupVars, moreVars,
                         max_attempts>>

\* A mutant of the loop condition: `while attempts <= max_attempts`
LoopContinuesInclusive(done, limit) == done <= limit

\* `while attempts < max_attempts`
LoopContinues(done, limit) == done < limit

\* the initial group and the check for client-side pagination
ProcessInitialGroup ==
    /\ pc = "page_start"
    /\ \E g \in Classifications :
          /\ initial_group' = g
          /\ IF g.found /\ TotalAnchors(g) > 0 /\ HiddenRatioExceeds(g)
             THEN /\ client_side_pagination' = TRUE
                  /\ news_groups' = Append(news_groups, page_no)
                  /\ pc' = "returned"
             ELSE /\ client_side_pagination' = client_side_pagination
                  /\ news_groups' = IF g.found THEN Append(news_groups, page_no)
                                    ELSE news_groups
                  /\ pc' = "loop"
    /\ attempts' = 0
    /\ UNCHANGED <<group, page_no, load_more_calls, pagination_calls>>
    /\ PageFrame

\* A mutant of the append after a navigation: without the test for None
AppendGroupAlways(groups, g, page) == Append(groups, page)

\* `if group is not None: news_groups.append(group)`
AppendGroup(groups, g, page) ==
    IF g.found THEN Append(groups, page) ELSE groups

\* after a navigation: the new snapshot is classified, its group appended
Reclassify ==
    /\ page_no' = page_no + 1
    /\ \E g \in Classifications :
          /\ group' = g
          /\ news_groups' = AppendGroup(news_groups, g, page_no')
    /\ attempts' = attempts + 1
    /\ pc' = "loop"

\* after a navigation: find_news_group raises on the new snapshot
ReclassifyRaises ==
    /\ page_no' = page_no + 1
    /\ pc' = "page_raised"
    /\ UNCHANGED <<news_groups, attempts, group>>

\* find_news_group raises on the first snapshot (a frame without the
\* column a filter reads): the exception leaves _process_page_content
ClassifyRaises ==
    /\ pc = "page_start"
    /\ pc' = "page_raised"
    /\ UNCHANGED pageVars
    /\ UNCHANGED <<pruneVars, contentVars, dateVars, titleVars, groupVars, moreVars>>

\* `while attempts < max_attempts: if self.handle_load_more():`
TryLoadMore ==
    /\ pc = "loop"
    /\ LoopContinues(attempts, max_attempts)
    /\ load_more_calls' = load_more_calls + 1
    /\ \/ Reclassify
       \/ ReclassifyRaises
       \/ /\ pc' = "pagination"
          /\ UNCHANGED <<news_groups, attempts, group, page_no>>
    /\ UNCHANGED <<client_side_pagination, initial_group, pagination_calls>>
    /\ PageFrame

\* `if self.handle_pagination():`, else break
TryPagination ==
    /\ pc = "pagination"
    /\ pagination_calls' = pagination_calls + 1
    /\ \/ Reclassify
       \/ ReclassifyRaises
       \/ /\ pc' = "returned"
          /\ UNCHANGED <<news_groups, attempts, group, page_no>>
    /\ UNCHANGED <<client_side_pagination, initial_group, load_more_calls>>
    /\ PageFrame

\* the loop condition fails: return news_groups
PageLoopEnd ==
    /\ pc = "loop"
    /\ ~LoopContinues(attempts, max_attempts)
    /\ pc' = "returned"
    /\ UNCHANGED pageVars
    /\ UNCHANGED <<pruneVars, contentVars, dateVars, titleVars, groupVars, moreVars>>

PageNext ==
    \/ ProcessInitialGroup
    \/ ClassifyRaises
    \/ TryLoadMore
    \/ TryPagination
    \/ PageLoopEnd

SpecPage == PageInit /\ [][PageNext]_vars

\* _process_page_content is sequential code: while it has not returned,
\* its next step is taken.
SpecPageFair == SpecPage /\ WF_vars(PageNext)

(***************************************************************************)
(* Claims about _process_page_content                                      *)
(***************************************************************************)
InitialClassified == pc \in {"loop", "pagination", "returned"}

\* C7: if more than 0.6 of the anchors of the group classified on the first
\* snapshot of a page loop are hidden, the loop records that group, sets
\* the client-side-pagination flag and returns without any call of the
\* load-more or next-page handler; with 0.6 or less the flag is not set.
C7_ClientSidePagination ==
    InitialClassified =>
        IF initial_group.found
           /\ 5 * HiddenCount(initial_group) > 3 * TotalAnchors(initial_group)
        THEN /\ client_side_pagination = TRUE
             /\ news_groups = <<1>>
             /\ pc = "returned"
             /\ page_no = 1
             /\ load_more_calls = 0 /\ pagination_calls = 0
        ELSE client_side_pagination = FALSE

\* C7 witness: four of five anchors hidden, navigation was allowed, and the
\* loop has returned with the flag set.
C7_Witness ==
    /\ pc = "returned"
    /\ max_attempts > 0
    /\ initial_group.found
    /\ TotalAnchors(initial_group) = 5 /\ HiddenCount(initial_group) = 4
    /\ client_side_pagination = TRUE
    /\ load_more_calls = 0

\* C16: every page loop ends, by returning or with the exception of
\* find_news_group; the successful navigations of one page loop never
\* exceed max_attempts; with max_attempts = 0 neither the load-more handler
\* nor the next-page handler is called.
C16_PageLoopBounded ==
    /\ [](/\ attempts <= max_attempts
          /\ page_no - 1 <= max_attempts
          /\ max_attempts = 0 => load_more_calls = 0 /\ pagination_calls = 0)
    /\ <>(pc \in {"returned", "page_raised"})

\* C16 witness: a page loop with max_attempts = 2 has returned after two
\* successful navigations, one of them by the next-page handler.
C16_Witness ==
    /\ pc = "returned"
    /\ max_attempts = 2
    /\ attempts = 2 /\ page_no = 3
    /\ pagination_calls > 0

\* C19 as stated: whenever the group classified after a successful
\* load-more or next-page navigation has more than 0.6 of its anchors
\* hidden, the flag is set and the page loop has returned without another
\* navigation.
C19_Original ==
    (/\ attempts > 0
     /\ group.found
     /\ 5 * HiddenCount(group) > 3 * TotalAnchors(group)) =>
        /\ client_side_pagination = TRUE
        /\ pc = "returned"

(***************************************************************************)
(* NewsGroupFinder.find_news_group: hrefs and anchors                      *)
(*                                                                         *)
(* An href is given by its form and its path.  The forms are "absolute"    *)
(* (https://host/path), "root" (/path), "document" (path), and "fragment", *)
(* "mailto", "empty" for the hrefs the anchor filter drops.  A path is a   *)
(* sequence of segments; a segment is given by its words (what splitting   *)
(* at - _ . and white space leaves, in lower case), its length in          *)
(* characters, and whether it ends in a file extension.                    *)
(***************************************************************************)
Seg(words, len, ext) == [words |-> words, len |-> len, ext |-> ext]

Href(form, host, path) == [form |-> form, host |-> host, path |-> path]

BaseHost == "acme.com"
SocialHosts == {"facebook.com", "twitter.com", "instagram.com", "linkedin.com",
                "youtube.com", "tiktok.com", "pinterest.com", "reddit.com",
                "whatsapp.com", "x.com"}

\* the words of url_patterns, each listed there as /word and /word/
url_patterns == {"legal", "terms", "privacy", "contact", "careers", "support",
                 "blog", "events", "about", "faq", "investors", "search",
                 "sitemap", "login", "register", "help", "company"}

typical_keywords == {"legal", "terms", "policy", "privacy", "contact", "careers",
                     "conditions", "locations", "faq", "investors", "about",
                     "settings", "cookies", "blog", "support", "help",
                     "resources", "events", "login", "register", "account",
                     "search", "sitemap", "media", "press", "directory",
                     "community", "company"}

\* _get_verb_variations on the verbs of verb_list the model uses: the base
\* form, base + "s", and the past tense
verb_variations == {"announce", "announces", "announced",
                    "report", "reports", "reported",
                    "launch", "launchs", "launched",
                    "sign", "signs", "signed"}

\* anchor['href'] is kept by the anchor filter
IsEligibleHref(url) ==
    /\ url.form \notin {"fragment", "mailto", "empty"}
    /\ url.host \notin SocialHosts

\* _is_social_media_url
IsSocialMediaUrl(url) == IF url.host \in SocialHosts THEN 1 ELSE 0

\* url.split('/') after the trailing slash is stripped
SplitSegments(url) ==
    CASE url.form = "absolute" ->
            <<Seg(<<"https:">>, 6, FALSE), Seg(<<>>, 0, FALSE),
              Seg(<<"host">>, 8, TRUE)>> \o url.path
      [] url.form = "root" -> <<Seg(<<>>, 0, FALSE)>> \o url.path
      [] OTHER -> url.path

\* meaningful_segment of _has_verb_with_context and _get_last_path_length;
\* the empty sequence when the only segment is a file name
MeaningfulSegment(url) ==
    LET segments == SplitSegments(url)
        last == segments[Len(segments)]
    IN  IF last.ext
        THEN IF Len(segments) < 2 THEN <<>> ELSE <<segments[Len(segments) - 1]>>
        ELSE <<last>>

\* _has_verb_with_context
HasVerbWithContext(url) ==
    LET m == MeaningfulSegment(url)
    IN  /\ m # <<>>
        /\ Len(m[1].words) > 1
        /\ \E i \in 1..Len(m[1].words) : m[1].words[i] \in verb_variations

\* _get_last_path_length
GetLastPathLength(url) ==
    LET m == MeaningfulSegment(url)
    IN  IF m = <<>> THEN 0 ELSE m[1].len

\* _analyze_url_structure(url)['multi_level_path']
MultiLevelPath(url) ==
    CASE url.form = "root" -> TRUE
      [] url.form = "absolute" -> 1 + Len(url.path) >= 2
      [] OTHER -> Len(url.path) >= 2

\* A mutant of _is_typical_url: the text may have any number of words
IsTypicalUrlAnyLength(anchor) ==
    \/ /\ anchor.href.form \in {"root", "absolute"}
       /\ Len(anchor.href.path) = 1
       /\ anchor.href.path[1].words \in {<<w>> : w \in url_patterns}
    \/ \E i \in 1..Len(anchor.text) : anchor.text[i] \in typical_keywords

\* _is_typical_url
IsTypicalUrl(anchor) ==
    \/ /\ anchor.href.form \in {"root", "absolute"}
       /\ Len(anchor.href.path) = 1
       /\ anchor.href.path[1].words \in {<<w>> : w \in url_patterns}
    \/ /\ anchor.text # <<>>
       /\ Len(anchor.text) <= 4
       /\ \E i \in 1..Len(anchor.text) : anchor.text[i] \in typical_keywords

\* url.startswith('http'): the absolute hrefs of the model have the scheme
\* https; a document-relative href starts with its first word
StartsWithHttp(url) ==
    \/ url.form = "absolute"
    \/ /\ url.form = "document"
       /\ url.path # <<>>
       /\ url.path[1].words # <<>>
       /\ url.path[1].words[1] \in {"http", "https"}

\* _make_absolute_url
MakeAbsoluteUrl(url) ==
    IF StartsWithHttp(url) THEN url
    ELSE Href("absolute", BaseHost, url.path)

(***************************************************************************)
(* NewsGroupFinder.find_news_group: the snapshots                          *)
(*                                                                         *)
(* A snapshot is the sequence of its anchors in document order, each with  *)
(* its href, the words of its text and its flexible ancestry.  It is made  *)
(* of up to MaxSections sections, a section being a list of links placed   *)
(* under one ancestry.                                                     *)
(***************************************************************************)
Link(href, text) == [href |-> href, text |-> text]

NewsSeg == Seg(<<"news">>, 4, FALSE)
SlugSeg(topic) == Seg(<<"acme", "announces", topic>>, 17, FALSE)
Headline == <<"acme", "announces", "new", "media", "partnership">>

\* /news/acme-announces-<topic>, with a headline of five words
NewsLink(topic) == Link(Href("root", "", <<NewsSeg, SlugSeg(topic)>>), Headline)
\* /<word>, with the word as text
NavLink(word) == Link(Href("root", "", <<Seg(<<word>>, 5, FALSE)>>), <<word>>)

\* six links under /news/ with verb-bearing slugs
NewsSection == [i \in 1..6 |-> NewsLink(<<"q1", "q2", "q3", "q4", "q5", "q6">>[i])]
\* the same, the first link with the text "Acme press release"
PressSection ==
    [NewsSection EXCEPT ![1] = Link(@.href, <<"acme", "press", "release">>)]
\* three of the links
ShortSection == SubSeq(NewsSection, 1, 3)
\* /legal, /privacy, /contact, /about
NavSection == <<NavLink("legal"), NavLink("privacy"), NavLink("contact"),
                NavLink("about")>>
\* release-1.html ... release-5.html
FileSection ==
    [i \in 1..5 |->
        Link(Href("document", "",
                  <<Seg(<<"release", <<"1", "2", "3", "4", "5">>[i], "html">>,
                        14, TRUE)>>),
             Headline)]
\* /acme-announces-q1 ... /acme-announces-q5: one path segment each
FlatSection ==
    [i \in 1..5 |-> Link(Href("root", "", <<NewsSection[i].href.path[2]>>), Headline)]
\* https://acme.com/products/widget-1 ... widget-7, no verb in the slug
ProductSection ==
    [i \in 1..7 |->
        Link(Href("absolute", BaseHost,
                  <<Seg(<<"products">>, 8, FALSE),
                    Seg(<<"widget", <<"1", "2", "3", "4", "5", "6", "7">>[i]>>,
                        8, FALSE)>>),
             <<"widget">>)]
\* http-archive/acme-announces-q1 ... q5: relative to the document
HttpArchiveSection ==
    [i \in 1..5 |->
        Link(Href("document", "",
                  <<Seg(<<"http", "archive">>, 12, FALSE),
                    NewsSection[i].href.path[2]>>),
             Headline)]
\* /catalog/item-1 ... item-5, no verb in the slug
CatalogSection ==
    [i \in 1..5 |->
        Link(Href("root", "",
                  <<Seg(<<"catalog">>, 7, FALSE),
                    Seg(<<"item", <<"1", "2", "3", "4", "5">>[i]>>, 6, FALSE)>>),
             <<"item">>)]
\* links the anchor filter drops
DroppedSection ==
    <<Link(Href("absolute", "twitter.com", <<Seg(<<"acme">>, 4, FALSE)>>), <<"twitter">>),
      Link(Href("fragment", "", <<>>), <<"top">>),
      Link(Href("mailto", "", <<>>), <<"mail">>),
      Link(Href("empty", "", <<>>), <<>>)>>

Sections == {NewsSection, PressSection, ShortSection, NavSection, FileSection,
             FlatSection, ProductSection, CatalogSection, HttpArchiveSection,
             DroppedSection}

Ancestries == {"html > body > main > ul > li", "html > body > footer > ul > li"}

\* the anchors of a section under an ancestry
Place(section, ancestry) ==
    [i \in 1..Len(section) |->
        [href |-> section[i].href, text |-> section[i].text,
         ancestry |-> ancestry]]

RECURSIVE Flatten(_)
Flatten(parts) ==
    IF parts = <<>> THEN <<>> ELSE Head(parts) \o Flatten(Tail(parts))

Snapshots(n) ==
    {Flatten(parts) : parts \in
        UNION {[1..k -> {Place(sec, anc) : sec \in Sections, anc \in Ancestries}] :
                  k \in 0..n}}

(***************************************************************************)
(* NewsGroupFinder.find_news_group: groups, features and filters           *)
(***************************************************************************)
\* the anchors find_news_group keeps
EligibleAnchors(page) == SelectSeq(page, LAMBDA a : IsEligibleHref(a.href))

RECURSIVE AncestryKeys(_, _)
\* the keys of ancestry_groups, in insertion order
AncestryKeys(anchors, seen) ==
    IF anchors = <<>> THEN <<>>
    ELSE IF Head(anchors).ancestry \in seen THEN AncestryKeys(Tail(anchors), seen)
    ELSE <<Head(anchors).ancestry>> \o
         AncestryKeys(Tail(anchors), seen \cup {Head(anchors).ancestry})

RECURSIVE UniqueUrls(_, _)
\* the anchors of one ancestry whose url was not seen before in it
UniqueUrls(anchors, seen_urls) ==
    IF anchors = <<>> THEN <<>>
    ELSE IF Head(anchors).href \in seen_urls THEN UniqueUrls(Tail(anchors), seen_urls)
    ELSE <<Head(anchors)>> \o
         UniqueUrls(Tail(anchors), seen_urls \cup {Head(anchors).href})

\* grouped_anchors
GroupedAnchors(page) ==
    LET anchors == EligibleAnchors(page)
        keys == AncestryKeys(anchors, {})
    IN  [i \in 1..Len(keys) |->
            UniqueUrls(SelectSeq(anchors, LAMBDA a : a.ancestry = keys[i]), {})]

RECURSIVE Insert(_, _)
Insert(x, sorted) ==
    IF sorted = <<>> THEN <<x>>
    ELSE IF x <= Head(sorted) THEN <<x>> \o sorted
    ELSE <<Head(sorted)>> \o Insert(x, Tail(sorted))

RECURSIVE Sorted(_)
\* sorted(url_last_lengths)
Sorted(seq) == IF seq = <<>> THEN <<>> ELSE Insert(Head(seq), Sorted(Tail(seq)))

CountWhere(seq, Test(_)) == Len(SelectSeq(seq, Test))

\* group_info of one group; multi_level_path_count is 0 where the dictionary
\* has no such key
GroupInfo(anchor_elements, i) ==
    LET urls == [k \in 1..Len(anchor_elements) |-> anchor_elements[k].href]
        url_last_lengths == [k \in 1..Len(urls) |-> GetLastPathLength(urls[k])]
    IN  [group_id |-> i - 1,
         ancestry |-> anchor_elements[1].ancestry,
         urls |-> urls,
         a |-> anchor_elements,
         url_count |-> Len(urls),
         is_social_media_num |->
             CountWhere(urls, LAMBDA u : IsSocialMediaUrl(u) = 1),
         num_typical_url |-> CountWhere(anchor_elements, IsTypicalUrl),
         last_path_median_length |->
             Sorted(url_last_lengths)[(Len(url_last_lengths) \div 2) + 1],
         urls_with_verbs |-> CountWhere(urls, HasVerbWithContext),
         multi_level_path_count |-> CountWhere(urls, MultiLevelPath)]

\* groups_data
GroupsData(page) ==
    LET grouped == GroupedAnchors(page)
    IN  [i \in 1..Len(grouped) |-> GroupInfo(grouped[i], i)]

UrlSet(row) == {row.urls[k] : k \in 1..Len(row.urls)}

\* drop_duplicates(subset=['urls_set']): the first row of each url set
DropDuplicates(rows) ==
    LET keep == {i \in 1..Len(rows) :
                    \A j \in 1..(i-1) : UrlSet(rows[j]) # UrlSet(rows[i])}
    IN  [k \in 1..Cardinality(keep) |->
            rows[CHOOSE i \in keep : Cardinality({j \in keep : j <= i}) = k]]

\* the rows of a frame that pass a test, in order
Rows(frame, Test(_)) == SelectSeq(frame, Test)

\* the frame has a column multi_level_path_pct
HasMultiLevelColumn(rows) ==
    \E i \in 1..Len(rows) : rows[i].multi_level_path_count > 0

\* A mutant of the primary filter: the url count is not tested
PrimaryFilterNoCount(row) ==
    /\ row.num_typical_url = 0
    /\ row.is_social_media_num = 0
    /\ row.multi_level_path_count = row.url_count

\* the primary filter; multi_level_path_pct is count / total_urls
PrimaryFilter(row) ==
    /\ row.num_typical_url = 0
    /\ row.url_count > 4
    /\ row.is_social_media_num = 0
    /\ row.multi_level_path_count = row.url_count

\* verb_percentage > 20
HighVerb(row) == row.urls_with_verbs * 100 > 20 * row.url_count

\* A mutant of the verb filter's guard: the filtered frame is always used
UseVerbFilterAlways(high_verb_candidates) == TRUE

\* if len(high_verb_candidates) > 0
UseVerbFilter(high_verb_candidates) == Len(high_verb_candidates) > 0

\* the maximum of a column over a non-empty frame
MaxOf(frame, Column(_)) ==
    CHOOSE m \in {Column(frame[i]) : i \in 1..Len(frame)} :
        \A i \in 1..Len(frame) : Column(frame[i]) <= m

\* the verb percentage filter
VerbFilter(candidates) ==
    IF /\ Len(candidates) > 1
       /\ UseVerbFilter(Rows(candidates, HighVerb))
    THEN Rows(candidates, HighVerb)
    ELSE candidates

\* the highest median length of the last path segment
MedianFilter(candidates) ==
    IF Len(candidates) > 1
    THEN LET max_median_length ==
                 MaxOf(candidates, LAMBDA r : r.last_path_median_length)
         IN  Rows(candidates,
                  LAMBDA r : r.last_path_median_length = max_median_length)
    ELSE candidates

\* the highest url count
CountFilter(candidates) ==
    IF Len(candidates) > 1
    THEN LET max_url_count == MaxOf(candidates, LAMBDA r : r.url_count)
         IN  Rows(candidates, LAMBDA r : r.url_count = max_url_count)
    ELSE candidates

Pending == [outcome |-> "pending"]
ReturnsNone == [outcome |-> "None"]
Raises(key) == [outcome |-> "raised", message |-> "Error finding news group", key |-> key]
Returns(row) ==
    [outcome |-> "returned",
     row |-> [row EXCEPT !.urls = [k \in 1..Len(row.urls) |->
                                      MakeAbsoluteUrl(row.urls[k])]]]

GroupInit ==
    /\ pc = "snapshot"
    /\ soup \in Snapshots(MaxSections)
    /\ df = <<>>
    /\ news_candidates = <<>>
    /\ news_result = Pending
    /\ PruneIdle
    /\ DateIdle
    /\ TitleIdle
    /\ PageIdle
    /\ content_type = Nil /\ skip_remaining = Nil
    /\ processed_elements = Nil /\ target_idx = Nil
    /\ MoreIdle

GroupFrame == UNCHANGED <<soup, pruneVars, dateVars, titleVars, pageVars, moreVars,
                          content_type, skip_remaining, processed_elements,
                          target_idx>>

\* anchors, groups, group features, the frame without duplicate url sets;
\* a frame without rows has no column 'urls'
BuildFrame ==
    /\ pc = "snapshot"
    /\ LET rows == GroupsData(soup)
       IN  IF rows = <<>>
           THEN /\ news_result' = Raises("urls")
                /\ pc' = "done"
                /\ UNCHANGED df
           ELSE /\ df' = DropDuplicates(rows)
                /\ pc' = "primary"
                /\ UNCHANGED news_result
    /\ UNCHANGED news_candidates
    /\ GroupFrame

\* the four primary filters
ApplyPrimaryFilter ==
    /\ pc = "primary"
    /\ IF ~HasMultiLevelColumn(df)
       THEN /\ news_result' = Raises("multi_level_path_pct")
            /\ pc' = "done"
            /\ UNCHANGED news_candidates
       ELSE /\ news_candidates' = Rows(df, PrimaryFilter)
            /\ pc' = "verb"
            /\ UNCHANGED news_result
    /\ UNCHANGED df
    /\ GroupFrame

\* the verb percentage filter
ApplyVerbFilter ==
    /\ pc = "verb"
    /\ news_candidates' = VerbFilter(news_candidates)
    /\ pc' = "median"
    /\ UNCHANGED <<df, news_result>>
    /\ GroupFrame

\* the highest median length of the last path segment
ApplyMedianFilter ==
    /\ pc = "median"
    /\ news_candidates' = MedianFilter(news_candidates)
    /\ pc' = "count"
    /\ UNCHANGED <<df, news_result>>
    /\ GroupFrame

\* the highest url count
ApplyCountFilter ==
    /\ pc = "count"
    /\ news_candidates' = CountFilter(news_candidates)
    /\ pc' = "return"
    /\ UNCHANGED <<df, news_result>>
    /\ GroupFrame

\* one candidate: it is returned with absolute urls; else None
ReturnGroup ==
    /\ pc = "return"
    /\ news_result' = IF Len(news_candidates) = 1 THEN Returns(news_candidates[1])
                      ELSE ReturnsNone
    /\ pc' = "done"
    /\ UNCHANGED <<df, news_candidates>>
    /\ GroupFrame

GroupNext ==
    \/ BuildFrame \/ ApplyPrimaryFilter \/ ApplyVerbFilter
    \/ ApplyMedianFilter \/ ApplyCountFilter \/ ReturnGroup

SpecGroup == GroupInit /\ [][GroupNext]_vars

(***************************************************************************)
(* Claims about find_news_group                                            *)
(***************************************************************************)
Classified == pc = "done"

AnchorsUnder(ancestry) == SelectSeq(soup, LAMBDA a : a.ancestry = ancestry)
HrefsUnder(ancestry) ==
    {AnchorsUnder(ancestry)[k].href : k \in 1..Len(AnchorsUnder(ancestry))}

\* /news/<slug> with a verb in the slug: two path segments
NewsHref(url) ==
    /\ url.form = "root"
    /\ Len(url.path) = 2
    /\ url.path[1].words = <<"news">>
    /\ \E i \in 1..Len(url.path[2].words) :
          url.path[2].words[i] \in {"announces", "reports", "signs"}

UtilityHrefs ==
    {Href("root", "", <<Seg(<<w>>, 5, FALSE)>>) :
        w \in {"legal", "privacy", "contact", "about"}}

\* the anchors of the snapshot form two groups: six distinct /news/ urls
\* under `news`, the four utility urls under `other`
TwoGroupPage(news, other) ==
    /\ news # other
    /\ \A k \in 1..Len(soup) : soup[k].ancestry \in {news, other}
    /\ Cardinality(HrefsUnder(news)) = 6
    /\ \A url \in HrefsUnder(news) : NewsHref(url)
    /\ HrefsUnder(other) = UtilityHrefs

ReturnsGroupOf(ancestry) ==
    /\ news_result.outcome = "returned"
    /\ news_result.row.ancestry = ancestry
    /\ Len(news_result.row.urls) = 6
    /\ \A k \in 1..6 :
          /\ news_result.row.urls[k].form = "absolute"
          /\ news_result.row.urls[k].path \in
                {url.path : url \in HrefsUnder(ancestry)}

\* the text has at most four words, one of them a navigation keyword
NavigationText(text) ==
    /\ text # <<>>
    /\ Len(text) <= 4
    /\ \E i \in 1..Len(text) : text[i] \in typical_keywords

\* C8 as stated: on a page of the two groups, find_news_group returns the
\* group of the six /news/ urls.
C8_Original ==
    Classified =>
        \A news, other \in Ancestries :
            TwoGroupPage(news, other) => ReturnsGroupOf(news)

\* C8 amended: it does so when no anchor of the /news/ group has a text of
\* at most four words that contains a navigation keyword.
C8_NewsGroupReturned ==
    Classified =>
        \A news, other \in Ancestries :
            /\ TwoGroupPage(news, other)
            /\ \A k \in 1..Len(AnchorsUnder(news)) :
                  ~NavigationText(AnchorsUnder(news)[k].text)
            => ReturnsGroupOf(news)

\* C8 witness: the utility group comes first in the document, the /news/
\* group has headline texts, and the /news/ group was returned.
C8_Witness ==
    /\ Classified
    /\ \E news, other \in Ancestries :
          /\ TwoGroupPage(news, other)
          /\ soup[1].ancestry = other
          /\ \A k \in 1..Len(AnchorsUnder(news)) :
                Len(AnchorsUnder(news)[k].text) = 5
          /\ ReturnsGroupOf(news)

ReturnedAnchors == news_result.row.a

\* the first three primary filters on the returned group
PassesPlainFilters ==
    /\ \A k \in 1..Len(ReturnedAnchors) : ~IsTypicalUrl(ReturnedAnchors[k])
    /\ Len(news_result.row.urls) > 4
    /\ \A k \in 1..Len(ReturnedAnchors) :
          ReturnedAnchors[k].href.host \notin SocialHosts

\* C9 as stated: a returned group has no typical-navigation anchor, more
\* than 4 urls, no social-media url, and every url has a path of two or
\* more segments.
C9_Original ==
    Classified /\ news_result.outcome = "returned" =>
        /\ PassesPlainFilters
        /\ \A k \in 1..Len(ReturnedAnchors) :
              Len(ReturnedAnchors[k].href.path) >= 2

\* C9 amended: ... and every href either begins with "/" or, with the
\* protocol removed, has two or more segments between slashes, the host
\* counting as one.
C9_PrimaryFilters ==
    Classified /\ news_result.outcome = "returned" =>
        /\ PassesPlainFilters
        /\ \A k \in 1..Len(ReturnedAnchors) :
              LET url == ReturnedAnchors[k].href
              IN  \/ url.form = "root"
                  \/ url.form = "absolute" /\ Len(url.path) >= 1
                  \/ url.form = "document" /\ Len(url.path) >= 2

\* C9 witness: a group of five hrefs of the form /slug was returned.
C9_Witness ==
    /\ Classified
    /\ news_result.outcome = "returned"
    /\ Len(ReturnedAnchors) = 5
    /\ \A k \in 1..5 :
          /\ ReturnedAnchors[k].href.form = "root"
          /\ Len(ReturnedAnchors[k].href.path) = 1

\* C10 as stated: on every snapshot find_news_group returns one group or
\* None, one group exactly when one candidate survives, and raises no error.
C10_Original ==
    Classified =>
        /\ news_result.outcome \in {"returned", "None"}
        /\ news_result.outcome = "returned" <=> Len(news_candidates) = 1

(***************************************************************************)
(* ArticleExtractor.extract_article                                        *)
(*                                                                         *)
(* The page rendered at the url is given by the three parts the marking    *)
(* stages read: the title sources (as in SpecTitle), the date sources (as  *)
(* in SpecDate) and the content blocks (as in SpecContent).  The pages     *)
(* vary one part and keep the two others at a default.  The driver and the *)
(* challenge handler are the environment: driver.get and page_source may   *)
(* raise, _handle_cloudflare may return False.                             *)
(***************************************************************************)
ArticleUrls == {"https://news.example.com/a", "https://news.example.com/b"}

DefaultTitle ==
    [src \in {"og_title", "schema", "article_h1", "page_h1"} |->
        IF src = "og_title" THEN 50 ELSE Absent]
DefaultDate ==
    [metas |-> <<[property |-> "article:published_time",
                  content |-> "2031-07-01T10:00:00Z"]>>,
     schema |-> Nil, texts |-> <<>>]
DefaultContent == Assemble(<<Para(PlainText, NoAttr)>>)

ArticlePages(metas, texts, blocks) ==
    {[title |-> t, date |-> DefaultDate, content |-> DefaultContent] :
        t \in TitleDocuments}
    \cup
    {[title |-> DefaultTitle, date |-> d, content |-> DefaultContent] :
        d \in DateDocuments(metas, texts)}
    \cup
    {[title |-> DefaultTitle, date |-> DefaultDate, content |-> c] :
        c \in ContentDocuments(blocks)}

\* the exceptions of the model, with str(e)
NoException == [class |-> "None", message |-> ""]
WebDriverException ==
    [class |-> "WebDriverException", message |-> "Message: unknown error"]
ProtectionException ==
    [class |-> "Exception", message |-> "Could not bypass protection"]
ContentTypeError ==
    [class |-> "TypeError", message |-> "can only join an iterable"]

\* A mutant of the except clause: `except WebDriverException as e`
IsCaughtDriverOnly(e) == e.class = "WebDriverException"

\* `except Exception as e`: every exception class of the model derives
\* from Exception
IsCaught(e) == e.class \in {"Exception", "WebDriverException", "TypeError"}

NoResult   == [kind |-> "none", error |-> "", url |-> ""]
\* `return self.soup`
SoupResult == [kind |-> "soup", error |-> "", url |-> ""]
\* `return {'error': str(e), 'url': url}`
ErrorResult(e, u) == [kind |-> "error", error |-> e.message, url |-> u]

\* an element of the page, as the label attributes see it
Element(node, index) == [node |-> node, index |-> index]
Label(attribute, element) == [attribute |-> attribute, element |-> element]

\* A mutant of _mark_title: every valid candidate is marked
TitleMarksAllValid(doc) ==
    {Element(ValidTitles(doc)[i], 0) : i \in 1..Len(ValidTitles(doc))}

\* the elements _mark_title sets ali-zx9v8k2m4p-title-type on
TitleMarks(doc) ==
    IF ValidTitles(doc) = <<>> THEN {} ELSE {Element(BestTitle(doc), 0)}

\* the elements _mark_date sets ali-zx9v8k2m4p-date-type on: the first
\* published-time meta that parses, else the JSON-LD script, else the best
\* candidate of the text scan
DateMarks(doc) ==
    LET i == FirstParsedMeta(doc)
        published == SchemaDatePublished(doc.schema)
        cands == ScanTexts(doc)
    IN  IF i # 0 THEN {Element("meta", i)}
        ELSE IF published # Nil /\ ParseDate(published) # Nil
             THEN {Element("schema", 0)}
        ELSE IF cands # <<>> THEN {Element("text", BestCandidate(cands).element)}
        ELSE {}

\* the loop of _mark_content from target k on, up to the first exception
RECURSIVE WalkFrom(_, _, _)
WalkFrom(doc, st, k) ==
    IF st.fault \/ k > Len(Targets(doc)) THEN st
    ELSE WalkFrom(doc, ProcessTarget(doc, st, Targets(doc)[k]), k + 1)

MarkContent(doc) ==
    WalkFrom(doc, [skip |-> FALSE, processed |-> {},
                   ctype |-> [e \in 1..DocSize(doc) |-> Nil],
                   fault |-> FALSE], 1)

ExtractInit ==
    /\ pc = "call"
    /\ article_url \in ArticleUrls
    /\ soup \in ArticlePages(MaxMetas, MaxTexts - 1, MaxBlocks - 1)
    /\ content_type = [e \in 1..DocSize(soup.content) |-> Nil]
    /\ exception = NoException
    /\ extract_result = NoResult
    /\ labeled = {}
    /\ skip_remaining = Nil /\ processed_elements = Nil /\ target_idx = Nil
    /\ PruneIdle
    /\ DateIdle
    /\ TitleIdle
    /\ FinderIdle
    /\ DiscoverIdle
    /\ AddressIdle
    /\ BoilerIdle
    /\ LateIdle

ExtractFrame ==
    UNCHANGED <<soup, article_url, skip_remaining, processed_elements,
                target_idx, clean_soup, verify_result, dateVars, titleVars,
                finderVars, discoverVars, addressVars, boilerVars,
                lateVars>>

\* `raise` inside the try block of extract_article
Raise(e) ==
    /\ exception' = e
    /\ IF IsCaught(e)
       THEN /\ extract_result' = ErrorResult(e, article_url)
            /\ pc' = "returned"
       ELSE /\ extract_result' = extract_result
            /\ pc' = "raised"

\* self.driver.get(url)
ExtractGet ==
    /\ pc = "call"
    /\ \/ pc' = "protection" /\ UNCHANGED <<exception, extract_result>>
       \/ Raise(WebDriverException)
    /\ UNCHANGED <<original_soup, content_type, labeled>>
    /\ ExtractFrame

\* `if not self._handle_cloudflare(): raise Exception(...)`
ExtractProtection ==
    /\ pc = "protection"
    /\ \E passed \in BOOLEAN :
          IF passed
          THEN pc' = "page_source" /\ UNCHANGED <<exception, extract_result>>
          ELSE Raise(ProtectionException)
    /\ UNCHANGED <<original_soup, content_type, labeled>>
    /\ ExtractFrame

\* page_source is parsed, the text nodes are wrapped, the elements get
\* their identifiers, the addressed document is copied
ExtractAddress ==
    /\ pc = "page_source"
    /\ \/ /\ original_soup' = soup
          /\ pc' = "title"
          /\ UNCHANGED <<exception, extract_result>>
       \/ /\ Raise(WebDriverException)
          /\ UNCHANGED original_soup
    /\ UNCHANGED <<content_type, labeled>>
    /\ ExtractFrame

\* self._mark_title(self.soup)
ExtractMarkTitle ==
    /\ pc = "title"
    /\ labeled' = labeled \cup
                    {Label("title-type", e) : e \in TitleMarks(soup.title)}
    /\ pc' = "date"
    /\ UNCHANGED <<original_soup, content_type, exception, extract_result>>
    /\ ExtractFrame

\* self._mark_date(self.soup)
ExtractMarkDate ==
    /\ pc = "date"
    /\ labeled' = labeled \cup
                    {Label("date-type", e) : e \in DateMarks(soup.date)}
    /\ pc' = "content"
    /\ UNCHANGED <<original_soup, content_type, exception, extract_result>>
    /\ ExtractFrame

\* self._mark_content(self.soup): the labels set before an exception stay
ExtractMarkContent ==
    /\ pc = "content"
    /\ LET st == MarkContent(soup.content)
       IN  /\ content_type' = st.ctype
           /\ IF st.fault
              THEN Raise(ContentTypeError)
              ELSE pc' = "metadata" /\ UNCHANGED <<exception, extract_result>>
    /\ UNCHANGED <<original_soup, labeled>>
    /\ ExtractFrame

\* self._mark_metadata(self.soup); return self.soup
ExtractReturn ==
    /\ pc = "metadata"
    /\ extract_result' = SoupResult
    /\ pc' = "returned"
    /\ UNCHANGED <<original_soup, content_type, labeled, exception>>
    /\ ExtractFrame

ExtractNext ==
    \/ ExtractGet
    \/ ExtractProtection
    \/ ExtractAddress
    \/ ExtractMarkTitle
    \/ ExtractMarkDate
    \/ ExtractMarkContent
    \/ ExtractReturn

SpecExtract == ExtractInit /\ [][ExtractNext]_vars

(***************************************************************************)
(* Claims about extract_article                                            *)
(***************************************************************************)
\* C11: extract_article never raises to its caller; once an exception was
\* raised during navigation, addressing or labeling, the call has returned
\* the record of the exception's message and of the url it was called with.
C11_NeverRaises ==
    /\ pc # "raised"
    /\ exception.class # "None" =>
          /\ pc = "returned"
          /\ extract_result.kind = "error"
          /\ extract_result.error = exception.message
          /\ extract_result.url = article_url
    /\ (pc = "returned" /\ exception.class = "None") =>
          extract_result.kind = "soup"

\* C11 witness: the class-bold test of _mark_content raised a TypeError
\* after the title and the date were marked, and the call returned it.
C11_Witness ==
    /\ pc = "returned"
    /\ exception.class = "TypeError"
    /\ extract_result.kind = "error"
    /\ labeled # {}

\* C14: at most one element carries the title label and at most one element
\* carries the date label, at every point of extract_article and so after
\* its labeling stages.
C14_OneTitleOneDate ==
    /\ Cardinality({l \in labeled : l.attribute = "title-type"}) <= 1
    /\ Cardinality({l \in labeled : l.attribute = "date-type"}) <= 1

\* C14 witness: the page has two valid title candidates and two
\* published-time metas that parse; the call returned the document with
\* one title label and one date label.
C14_Witness ==
    /\ pc = "returned"
    /\ extract_result.kind = "soup"
    /\ \/ soup.title["og_title"] = 50 /\ soup.title["article_h1"] = 80
       \/ /\ Len(soup.date.metas) = 2
          /\ \A i \in 1..2 :
                /\ IsPublishedProperty(soup.date.metas[i].property)
                /\ soup.date.metas[i].content = "2031-07-01T10:00:00Z"
    /\ \E l \in labeled : l.attribute = "title-type"
    /\ \E l \in labeled : l.attribute = "date-type"

(***************************************************************************)
(* NewsGroupFinder.find_all_news_groups                                    *)
(*                                                                         *)
(* The page at base_url has at most one select element, given by the texts *)
(* of its options.  The browser is the environment: driver.get may raise,  *)
(* _handle_cloudflare may return False, and the later probes of the        *)
(* selector in _get_year_options and _select_year may fail, as the page    *)
(* they probe is the one the page loop has navigated to.  The page loop is *)
(* the one of SpecPage: its actions run between "page_start" and           *)
(* "returned".                                                             *)
(***************************************************************************)
\* the select elements of the pages
SelectElements ==
    {<<>>,
     <<"English", "Deutsch">>,
     <<"Year", "2024", "2023">>,
     <<"2024", "2023">>,
     <<"All", "2024", "2023", "2022">>,
     <<"Year", "2024", "2023", "2022">>}

\* max_attempts of the discovery runs
DiscoveryAttempts == {0, 1}

\* A mutant of the year test: every option counts as a year
IsYearTextAny(text) == TRUE

\* opt.text.strip().isdigit() and len(opt.text.strip()) == 4
IsYearText(text) == text \in {"2024", "2023", "2022"}

\* 'all' in opt.text.strip().lower()
ContainsAll(text) == text \in {"All"}

YearCount(options) ==
    Cardinality({i \in 1..Len(options) : IsYearText(options[i])})

\* _find_year_selector()[0]: at least two options, more than 70% years
IsYearSelector(options) ==
    /\ Len(options) >= 2
    /\ 10 * YearCount(options) > 7 * Len(options)

\* _find_year_selector()[1]
HasAll(options) ==
    IsYearSelector(options) /\ \E i \in 1..Len(options) : ContainsAll(options[i])

\* A mutant of the protection test: the result of the handler is ignored
ProtectionIgnored(result) == FALSE

\* `if not self._handle_cloudflare():`
ProtectionFailed(result) == result = "False"

\* A mutant of the year loop: it never breaks
BreaksYearLoopNever(flag) == FALSE

\* `if self.client_side_pagination: break`
BreaksYearLoop(flag) == flag

NoDiscovery == [kind |-> "none", message |-> <<>>]
\* `return news_groups`
GroupList == [kind |-> "list", message |-> <<>>]
\* `raise Exception(f"Error finding all news groups: {str(e)}")`
DiscoveryError(message) ==
    [kind |-> "raised",
     message |-> <<"Error finding all news groups: ", message>>]

DiscoverInit ==
    /\ pc = "get"
    /\ select_options \in SelectElements
    /\ max_attempts \in DiscoveryAttempts
    /\ handled = Nil
    /\ year_idx = 0
    /\ current_year = Nil
    /\ select_calls = <<>>
    /\ page_loops = <<>>
    /\ discover_result = NoDiscovery
    /\ driver = "open"
    /\ client_side_pagination = FALSE
    /\ news_groups = <<>>
    /\ attempts = 0
    /\ initial_group = NoGroup
    /\ group = NoGroup
    /\ page_no = 1
    /\ load_more_calls = 0
    /\ pagination_calls = 0
    /\ PruneIdle
    /\ ContentIdle
    /\ DateIdle
    /\ TitleIdle
    /\ GroupIdle
    /\ ExtractIdle
    /\ AddressIdle
    /\ BoilerIdle
    /\ LateIdle

DiscoverFrame ==
    UNCHANGED <<select_options, max_attempts, page_no, load_more_calls,
                pagination_calls, pruneVars, contentVars, dateVars,
                titleVars, groupVars, extractVars, addressVars, boilerVars,
                lateVars>>

\* the except clause and the finally clause
DiscoverRaise(message) ==
    /\ discover_result' = DiscoveryError(message)
    /\ driver' = "quit"
    /\ pc' = "discover_raised"

\* `return news_groups` and the finally clause
DiscoverReturn ==
    /\ discover_result' = GroupList
    /\ driver' = "quit"
    /\ pc' = "discovered"

\* self._select_year(year) and what it returned
SelectCall(year, selected) == [year |-> year, selected |-> selected]

\* the call of _process_page_content under the selection `selection`
CallPageLoop(selection) ==
    /\ page_loops' = Append(page_loops, selection)
    /\ pc' = "page_start"
    /\ UNCHANGED <<discover_result, driver>>

\* self.driver.get(self.base_url)
DiscoverGet ==
    /\ pc = "get"
    /\ \/ pc' = "protection" /\ UNCHANGED <<discover_result, driver>>
       \/ DiscoverRaise("Message: unknown error")
    /\ UNCHANGED <<handled, year_idx, current_year, select_calls, page_loops,
                   client_side_pagination, news_groups, attempts,
                   initial_group, group>>
    /\ DiscoverFrame

\* the challenge handler, `news_groups = []`, the probe of the selector and
\* the three scenarios up to the first page loop or the year loop
DiscoverProbe ==
    /\ pc = "protection"
    /\ \E result \in {"True", "False"} :
          /\ handled' = result
          /\ IF ProtectionFailed(result)
             THEN /\ DiscoverRaise("Could not bypass protection")
                  /\ UNCHANGED <<year_idx, current_year, select_calls, page_loops>>
             ELSE IF ~IsYearSelector(select_options)
             THEN /\ CallPageLoop(current_year)
                  /\ UNCHANGED <<year_idx, current_year, select_calls>>
             ELSE IF HasAll(select_options)
             THEN /\ \/ /\ select_calls' = Append(select_calls, SelectCall(Nil, TRUE))
                        /\ current_year' = "All"
                        /\ CallPageLoop("All")
                     \/ /\ select_calls' = Append(select_calls, SelectCall(Nil, FALSE))
                        /\ DiscoverReturn
                        /\ UNCHANGED <<current_year, page_loops>>
                  /\ UNCHANGED year_idx
             ELSE /\ \/ /\ year_idx' = 1
                        /\ pc' = "year"
                        /\ UNCHANGED <<discover_result, driver>>
                     \/ /\ DiscoverReturn
                        /\ UNCHANGED year_idx
                  /\ UNCHANGED <<current_year, select_calls, page_loops>>
    /\ news_groups' = <<>>
    /\ UNCHANGED <<client_side_pagination, attempts, initial_group, group>>
    /\ DiscoverFrame

\* one iteration of `for year in years` up to the call of the page loop
DiscoverYear ==
    /\ pc = "year"
    /\ year_idx <= Len(select_options)
    /\ LET year_text == select_options[year_idx]
       IN  IF ~IsYearText(year_text)
           THEN /\ year_idx' = year_idx + 1
                /\ UNCHANGED <<pc, current_year, select_calls, page_loops,
                               discover_result, driver>>
           ELSE \/ /\ select_calls' = Append(select_calls, SelectCall(year_text, TRUE))
                   /\ current_year' = year_text
                   /\ CallPageLoop(year_text)
                   /\ UNCHANGED year_idx
                \/ /\ select_calls' = Append(select_calls, SelectCall(year_text, FALSE))
                   /\ year_idx' = year_idx + 1
                   /\ UNCHANGED <<pc, current_year, page_loops,
                                  discover_result, driver>>
    /\ UNCHANGED <<handled, client_side_pagination, news_groups, attempts,
                   initial_group, group>>
    /\ DiscoverFrame

\* the years are exhausted: `return news_groups`
DiscoverYearsEnd ==
    /\ pc = "year"
    /\ year_idx > Len(select_options)
    /\ DiscoverReturn
    /\ UNCHANGED <<handled, year_idx, current_year, select_calls, page_loops,
                   client_side_pagination, news_groups, attempts,
                   initial_group, group>>
    /\ DiscoverFrame

\* an exception has left _process_page_content: the except clause
AfterPageRaise ==
    /\ pc = "page_raised"
    /\ DiscoverRaise("Error finding news group")
    /\ attempts' = 0
    /\ initial_group' = NoGroup
    /\ group' = NoGroup
    /\ UNCHANGED <<handled, year_idx, current_year, select_calls, page_loops,
                   client_side_pagination, news_groups>>
    /\ DiscoverFrame

\* _process_page_content has returned: its value is returned, or the year
\* loop breaks or goes on
AfterPageLoop ==
    /\ pc = "returned"
    /\ IF year_idx = 0 \/ BreaksYearLoop(client_side_pagination)
       THEN DiscoverReturn /\ UNCHANGED year_idx
       ELSE /\ year_idx' = year_idx + 1
            /\ pc' = "year"
            /\ UNCHANGED <<discover_result, driver>>
    /\ attempts' = 0
    /\ initial_group' = NoGroup
    /\ group' = NoGroup
    /\ UNCHANGED <<handled, current_year, select_calls, page_loops,
                   client_side_pagination, news_groups>>
    /\ DiscoverFrame

DiscoverNext ==
    \/ DiscoverGet
    \/ DiscoverProbe
    \/ DiscoverYear
    \/ DiscoverYearsEnd
    \/ AfterPageLoop
    \/ AfterPageRaise
    \/ ProcessInitialGroup
    \/ ClassifyRaises
    \/ TryLoadMore
    \/ TryPagination
    \/ PageLoopEnd

SpecDiscover == DiscoverInit /\ [][DiscoverNext]_vars

(***************************************************************************)
(* Claims about find_all_news_groups                                       *)
(***************************************************************************)
\* C12: if the challenge handler reports failure, find_all_news_groups
\* raises an error to its caller; no year is selected, no page loop runs
\* and no group list is returned.
C12_ProtectionFailureAborts ==
    handled = "False" =>
        /\ pc = "discover_raised"
        /\ discover_result =
             [kind |-> "raised",
              message |-> <<"Error finding all news groups: ",
                            "Could not bypass protection">>]
        /\ select_calls = <<>> /\ current_year = Nil
        /\ page_loops = <<>>
        /\ news_groups = <<>>

\* C12 witness: the handler failed on a page with a year selector.
C12_Witness ==
    /\ handled = "False"
    /\ select_options = <<"2024", "2023">>
    /\ pc = "discover_raised"

(***************************************************************************)
(* ArticleExtractor._wrap_text_nodes and _label_elements                   *)
(*                                                                         *)
(* A snapshot is the sequence of its nodes in document order.  A node is a *)
(* tag, a text node, or a blank text node (text.strip() is empty); the     *)
(* parent of a node is a tag or the soup object 0.  `origin` is the        *)
(* position of the node in the snapshot, 0 for the wrappers.  The marking  *)
(* stages are given by what they write: an attribute of their own on the   *)
(* elements they choose.                                                   *)
(***************************************************************************)
MaxRawNodes == 3

WrapperTag == "ali-tx9v8k2m4p"
\* the element has no ali-zx9v8k2m4p attribute
NoId == -1

Node(kind, parent, origin) ==
    [kind |-> kind, parent |-> parent, origin |-> origin, id |-> NoId,
     seq |-> 0, labels |-> {}]

RawDocuments(n) ==
    UNION {
      {[i \in 1..k |-> Node(kinds[i], parent[i], i)] :
          kinds \in [1..k -> {"tag", "text", "blank"}],
          parent \in Forests(k)} : k \in 0..n}

\* the children of a text node: none
WellFormed(doc) ==
    \A i \in 1..Len(doc) :
        doc[i].parent # 0 => doc[doc[i].parent].kind = "tag"

IsElement(node) == node.kind \in {"tag", WrapperTag}

\* soup.find_all(): the positions of the elements
ElementsOf(doc) == {i \in 1..Len(doc) : IsElement(doc[i])}

\* the non-empty text nodes of soup.find_all(string=True), by origin
TextNodesOf(doc) ==
    SelectSeq([i \in 1..Len(doc) |-> doc[i].origin],
              LAMBDA o : \E i \in 1..Len(doc) :
                            doc[i].origin = o /\ doc[i].kind = "text")

PositionOf(doc, origin) == CHOOSE i \in 1..Len(doc) : doc[i].origin = origin

\* text.wrap(aux_tag) for the text node at pos: the wrapper takes the place
\* of the text node, the text node becomes its only child
WrapText(doc, pos, idx) ==
    LET text == doc[pos]
        aux_tag == [Node(WrapperTag, text.parent, 0) EXCEPT !.seq = idx]
        moved == [i \in 1..Len(doc) |->
                    [doc[i] EXCEPT !.parent = IF @ > pos THEN @ + 1 ELSE @]]
    IN  SubSeq(moved, 1, pos - 1) \o <<aux_tag, [text EXCEPT !.parent = pos]>>
          \o SubSeq(moved, pos + 1, Len(doc))

\* `for idx, text in enumerate(text_nodes, 1)`, from idx on
RECURSIVE WrapFrom(_, _, _)
WrapFrom(doc, text_nodes, idx) ==
    IF idx > Len(text_nodes) THEN doc
    ELSE WrapFrom(WrapText(doc, PositionOf(doc, text_nodes[idx]), idx),
                  text_nodes, idx + 1)

\* _wrap_text_nodes
WrapTextNodes(doc) == WrapFrom(doc, TextNodesOf(doc), 1)

\* _label_elements: `for idx, element in enumerate(soup.find_all())`
LabelElements(doc) ==
    [i \in 1..Len(doc) |->
        IF IsElement(doc[i])
        THEN [doc[i] EXCEPT !.id =
                NodeId(Cardinality({j \in 1..i : IsElement(doc[j])}))]
        ELSE doc[i]]

\* element[attribute] = ... on the elements of S
SetAttribute(doc, S, attribute) ==
    [i \in 1..Len(doc) |->
        IF i \in S THEN [doc[i] EXCEPT !.labels = @ \cup {attribute}]
        ELSE doc[i]]

\* the sets of elements a marking stage can choose
NoneOrOne(doc) == {{}} \cup {{e} : e \in ElementsOf(doc)}
NoneOneOrAll(doc) == NoneOrOne(doc) \cup {ElementsOf(doc)}

AddressInit ==
    /\ pc = "snapshot"
    /\ page_source \in {d \in RawDocuments(MaxRawNodes) : WellFormed(d)}
    /\ soup = page_source
    /\ original_soup = <<>>
    /\ clean_soup = Nil /\ verify_result = Nil
    /\ content_type = Nil /\ skip_remaining = Nil
    /\ processed_elements = Nil /\ target_idx = Nil
    /\ DateIdle
    /\ TitleIdle
    /\ FinderIdle
    /\ ExtractIdle
    /\ DiscoverIdle
    /\ BoilerIdle
    /\ LateIdle

AddressFrame ==
    UNCHANGED <<page_source, clean_soup, verify_result, content_type,
                skip_remaining, processed_elements, target_idx, dateVars,
                titleVars, finderVars, extractVars, discoverVars, boilerVars,
                lateVars>>

\* self._wrap_text_nodes(self.soup)
AddressWrap ==
    /\ pc = "snapshot"
    /\ soup' = WrapTextNodes(soup)
    /\ pc' = "wrapped"
    /\ UNCHANGED original_soup
    /\ AddressFrame

\* self._label_elements(self.soup) and the copy into original_soup
AddressLabel ==
    /\ pc = "wrapped"
    /\ soup' = LabelElements(soup)
    /\ original_soup' = soup'
    /\ pc' = "title"
    /\ AddressFrame

\* _mark_title: the title attribute on at most one element
AddressMarkTitle ==
    /\ pc = "title"
    /\ \E S \in NoneOrOne(soup) :
          soup' = SetAttribute(soup, S, "ali-zx9v8k2m4p-title-type")
    /\ pc' = "date"
    /\ UNCHANGED original_soup
    /\ AddressFrame

\* _mark_date: the date attributes on at most one element
AddressMarkDate ==
    /\ pc = "date"
    /\ \E S \in NoneOrOne(soup) :
          soup' = SetAttribute(soup, S, "ali-zx9v8k2m4p-date-type")
    /\ pc' = "content"
    /\ UNCHANGED original_soup
    /\ AddressFrame

\* _mark_content and _mark_table: the content attribute
AddressMarkContent ==
    /\ pc = "content"
    /\ \E S \in NoneOneOrAll(soup) :
          soup' = SetAttribute(soup, S, "ali-zx9v8k2m4p-content-type")
    /\ pc' = "metadata"
    /\ UNCHANGED original_soup
    /\ AddressFrame

\* _mark_metadata: the metadata attributes
AddressMarkMetadata ==
    /\ pc = "metadata"
    /\ \E S \in NoneOrOne(soup) :
          soup' = SetAttribute(soup, S, "ali-zx9v8k2m4p-metadate_type")
    /\ pc' = "marked"
    /\ UNCHANGED original_soup
    /\ AddressFrame

AddressNext ==
    \/ AddressWrap
    \/ AddressLabel
    \/ AddressMarkTitle
    \/ AddressMarkDate
    \/ AddressMarkContent
    \/ AddressMarkMetadata

SpecAddress == AddressInit /\ [][AddressNext]_vars

(***************************************************************************)
(* Claims about the addressing of a snapshot                               *)
(***************************************************************************)
Addressed == pc \in {"title", "date", "content", "metadata", "marked"}

\* the wrappers of the document, in document order
WrappersOf(doc) == SelectSeq(doc, LAMBDA n : n.kind = WrapperTag)

\* the document without the attributes of the marking stages
Unmarked(doc) == [i \in 1..Len(doc) |-> [doc[i] EXCEPT !.labels = {}]]

\* C13: after _wrap_text_nodes and _label_elements every element, wrappers
\* included, has an identifier and no two elements share one; every
\* non-empty text node of the snapshot is the only child of a wrapper of
\* its own that stands where the text node stood, no other node is
\* wrapped, no node of the snapshot is lost or moved; the sequence numbers
\* of the wrappers are 1..N in document order; and the marking stages
\* change nothing but their own attributes.
C13_Addressing ==
    Addressed =>
        LET elements == ElementsOf(soup)
            wrappers == WrappersOf(soup)
            kept == SelectSeq(soup, LAMBDA n : n.origin # 0)
        IN  /\ \A e \in elements : soup[e].id # NoId
            /\ \A e, f \in elements : e # f => soup[e].id # soup[f].id
            /\ Len(kept) = Len(page_source)
            /\ \A o \in 1..Len(kept) :
                  /\ kept[o].origin = o
                  /\ kept[o].kind = page_source[o].kind
            /\ \A i \in 1..Len(soup) :
                  LET raw_parent == page_source[soup[i].origin].parent
                      up == IF soup[i].kind = "text"
                            THEN soup[soup[i].parent] ELSE soup[i]
                  IN  soup[i].origin # 0 =>
                        /\ soup[i].kind = "text" =>
                              /\ soup[i].parent = i - 1
                              /\ soup[i - 1].kind = WrapperTag
                        /\ IF raw_parent = 0 THEN up.parent = 0
                           ELSE /\ up.parent # 0
                                /\ soup[up.parent].origin = raw_parent
            /\ Len(wrappers) =
                 Cardinality({o \in 1..Len(page_source) :
                                page_source[o].kind = "text"})
            /\ \A i \in 1..Len(soup) :
                  soup[i].kind = WrapperTag =>
                     /\ i < Len(soup) /\ soup[i + 1].kind = "text"
                     /\ {c \in 1..Len(soup) : soup[c].parent = i} = {i + 1}
            /\ \A k \in 1..Len(wrappers) : wrappers[k].seq = k
            /\ Unmarked(soup) = original_soup

\* C13 witness: a snapshot with a text node inside a tag and a text node
\* after it has been addressed and marked; two wrappers were added.
C13_Witness ==
    /\ pc = "marked"
    /\ Len(page_source) = 3
    /\ page_source[1].kind = "tag"
    /\ page_source[2].kind = "text" /\ page_source[2].parent = 1
    /\ page_source[3].kind = "text" /\ page_source[3].parent = 0
    /\ Len(soup) = 5
    /\ \E i \in 1..Len(soup) : soup[i].labels # {}

(***************************************************************************)
(* SoupCleaner: its three entry points in any order                        *)
(*                                                                         *)
(* Documents are values; what the model keeps of object identity is        *)
(* whether the tree create_clean_soup prunes shares its nodes with         *)
(* original_soup.  clean_soup is None exactly while pc is "labeled".       *)
(***************************************************************************)
\* A mutant of the copy: `self.clean_soup = self.original_soup`
SharesNodesAlias == TRUE

\* copy.deepcopy(self.original_soup): the copy shares no node with the
\* original
SharesNodes == FALSE

\* original_soup once _process_element has decomposed elements of the copy
OriginalAfterPrune(original, pruned) ==
    IF SharesNodes THEN pruned ELSE original

\* create_clean_soup, called by itself or from the two other methods
CreateCleanSoupCall ==
    /\ clean_soup' = CleanCopy(original_soup)
    /\ original_soup' = OriginalAfterPrune(original_soup, clean_soup')

CleanerFrame ==
    UNCHANGED <<contentVars, dateVars, titleVars, finderVars, moreVars>>

\* SoupCleaner.create_clean_soup
CleanerCreate ==
    /\ pc \in {"labeled", "cleaned", "verified"}
    /\ CreateCleanSoupCall
    /\ pc' = "cleaned"
    /\ UNCHANGED verify_result
    /\ CleanerFrame

\* SoupCleaner.get_clean_html
CleanerGetHtml ==
    /\ pc \in {"labeled", "cleaned", "verified"}
    /\ IF pc = "labeled"
       THEN CreateCleanSoupCall /\ pc' = "cleaned"
       ELSE UNCHANGED <<pc, clean_soup, original_soup>>
    /\ UNCHANGED verify_result
    /\ CleanerFrame

\* SoupCleaner.verify_clean_soup
CleanerVerify ==
    /\ pc \in {"labeled", "cleaned", "verified"}
    /\ IF pc = "labeled"
       THEN CreateCleanSoupCall
       ELSE UNCHANGED <<clean_soup, original_soup>>
    /\ verify_result' = VerifyLabels(original_soup', clean_soup')
    /\ pc' = "verified"
    /\ CleanerFrame

CleanerNext == CleanerCreate \/ CleanerGetHtml \/ CleanerVerify

SpecCleaner == PruneInit /\ [][CleanerNext]_vars

YearOptionsOf(options) ==
    SelectSeq(options, LAMBDA text : text \in {"2024", "2023", "2022"})

\* the probe finds a year selector: two options or more, of which more
\* than 70% are years
ProbeFinds(options) ==
    Len(options) >= 2 /\ 10 * Len(YearOptionsOf(options)) > 7 * Len(options)

ProbeFindsAll(options) ==
    ProbeFinds(options) /\ \E i \in 1..Len(options) : options[i] = "All"

\* the arguments of the _select_year calls, and of those that succeeded
Requested == [i \in 1..Len(select_calls) |-> select_calls[i].year]
Succeeded ==
    LET done == SelectSeq(select_calls, LAMBDA c : c.selected)
    IN  [i \in 1..Len(done) |-> done[i].year]

IsPrefix(s, t) == Len(s) <= Len(t) /\ s = SubSeq(t, 1, Len(s))

\* C17 as stated: one page loop without a selector, one page loop under
\* the "all" option, one page loop per 4-digit year option in option order.
C17_Original ==
    pc = "discovered" =>
        IF ~ProbeFinds(select_options) THEN page_loops = <<Nil>>
        ELSE IF ProbeFindsAll(select_options) THEN page_loops = <<"All">>
        ELSE page_loops = YearOptionsOf(select_options)

\* C17 amended: without a year selector nothing is selected and a call
\* that returns has run exactly one page loop.  With an "all" option,
\* _select_year() is called once and one page loop runs under "All" if the
\* call succeeded, none otherwise.  Without an "all" option the 4-digit
\* year options are requested in option order, a page loop runs under each
\* year whose selection succeeded and under nothing else, and a call that
\* returns has stopped before the last year only after a page loop that
\* set the client-side-pagination flag, or at once when the options could
\* not be read.
C17_YearModes ==
    IF ~ProbeFinds(select_options)
    THEN /\ select_calls = <<>>
         /\ page_loops \in {<<>>, <<Nil>>}
         /\ pc = "discovered" => page_loops = <<Nil>>
    ELSE IF ProbeFindsAll(select_options)
    THEN /\ Requested \in {<<>>, <<Nil>>}
         /\ page_loops = [i \in 1..Len(Succeeded) |-> "All"]
         /\ pc = "discovered" => Requested = <<Nil>>
    ELSE /\ IsPrefix(Requested, YearOptionsOf(select_options))
         /\ page_loops = Succeeded
         /\ (pc = "discovered" /\ Requested # YearOptionsOf(select_options)) =>
               \/ select_calls = <<>>
               \/ /\ select_calls[Len(select_calls)].selected
                  /\ client_side_pagination = TRUE

\* C17 witness: of the years 2024, 2023, 2022 the selection of 2023
\* failed; page loops ran under 2024 and 2022 only.
C17_Witness ==
    /\ pc = "discovered"
    /\ select_options = <<"Year", "2024", "2023", "2022">>
    /\ page_loops = <<"2024", "2022">>
    /\ Len(select_calls) = 3

\* C18: in the year loop, once a page loop has set the
\* client-side-pagination flag, the call is returning or has returned the
\* group list: the year of that page loop is the last one requested and
\* selected, its page loop is the last one run, and the group that set the
\* flag is the last one recorded.
C18_StopsAfterFlag ==
    (year_idx > 0 /\ client_side_pagination = TRUE) =>
        /\ pc \in {"returned", "discovered"}
        /\ select_calls[Len(select_calls)] =
             [year |-> select_options[year_idx], selected |-> TRUE]
        /\ current_year = select_options[year_idx]
        /\ page_loops[Len(page_loops)] = select_options[year_idx]
        /\ news_groups # <<>> /\ news_groups[Len(news_groups)] = page_no
        /\ pc = "discovered" => discover_result.kind = "list"

\* C18 witness: the page loop of 2023 set the flag after the page loop of
\* 2024 had recorded a group; 2022 was never requested.
C18_Witness ==
    /\ pc = "discovered"
    /\ select_options = <<"Year", "2024", "2023", "2022">>
    /\ client_side_pagination = TRUE
    /\ page_loops = <<"2024", "2023">>
    /\ Len(select_calls) = 2
    /\ Len(news_groups) >= 2

(***************************************************************************)
(* ArticleExtractor._is_boilerplate as a function                          *)
(*                                                                         *)
(* The inputs are the text wrappers of documents made of paragraphs with   *)
(* every text and every style or class attribute of the model, plain or    *)
(* inside a b element.                                                     *)
(***************************************************************************)
StyledBlocks ==
    {Para(text, attr) : text \in Texts,
                        attr \in {NoAttr, BoldStyle, PlainClass, BoldClass}}
    \cup {BoldPara(text) : text \in Texts}

StyledDocuments(n) ==
    {Assemble(bs) : bs \in UNION {[1..k -> StyledBlocks] : k \in 1..n}}

BoilerInit ==
    /\ pc = "call"
    /\ soup \in StyledDocuments(MaxBlocks - 1)
    /\ text_element \in {e \in 1..DocSize(soup) : soup.text[e] # Nil}
    /\ boilerplate_result = Nil
    /\ content_type = Nil /\ skip_remaining = Nil
    /\ processed_elements = Nil /\ target_idx = Nil
    /\ PruneIdle
    /\ DateIdle
    /\ TitleIdle
    /\ FinderIdle
    /\ ExtractIdle
    /\ DiscoverIdle
    /\ AddressIdle
    /\ LateIdle

\* self._is_boilerplate(direct_text, element)
CallIsBoilerplate ==
    /\ pc = "call"
    /\ boilerplate_result' = IsBoilerplate(soup, text_element)
    /\ pc' = "classified"
    /\ UNCHANGED <<soup, text_element, content_type, skip_remaining,
                   processed_elements, target_idx, pruneVars, dateVars,
                   titleVars, finderVars, extractVars, discoverVars,
                   addressVars, lateVars>>

BoilerNext == CallIsBoilerplate

SpecBoilerplate == BoilerInit /\ [][BoilerNext]_vars

\* the text as a whole matches a strict section-boundary pattern
WholeStrictMatch ==
    soup.text[text_element] \in
        {"Forward-Looking Statements", "About our privacy policy"}

\* the text contains a basic boilerplate phrase
HasBasicPhrase ==
    soup.text[text_element] \in
        {"Follow us on social media", "About our privacy policy"}

\* the element has no class, its parent has one, and the parent is neither
\* a bold tag nor bold by its inline style
ClassTestOnClasslessElement ==
    /\ ParentName(soup, text_element) \notin {"b", "strong"}
    /\ ParentAttr(soup, text_element) \in {PlainClass, BoldClass}
    /\ soup.attr[text_element] = NoAttr

LenientOnly(b) ==
    soup.text[b] = "This release contains forward-looking statements"

\* the element enclosing the text of b is bold by one of the three signals
EnclosingIsBold(b) ==
    \/ ParentName(soup, b) \in {"b", "strong"}
    \/ ParentAttr(soup, b) = "style=font-weight: bold"
    \/ ParentAttr(soup, b) = "class=text-bold"

\* C21 as stated: a text that matches only a lenient pattern and whose
\* enclosing element is bold by the tag, the inline style or a class token
\* containing "bold" triggers boundary detection when the walk meets it.
C21_Original ==
    Walking => \A b \in 1..DocSize(soup) :
                  Encountered(b) /\ LenientOnly(b) /\ EnclosingIsBold(b)
                  => skip_remaining = TRUE

\* C22 as stated: a text that matches only a lenient pattern and whose
\* enclosing element is not bold, with or without class attributes, gets
\* the content label when the walk meets it, and no fault is raised.
C22_Original ==
    Walking => \A b \in 1..DocSize(soup) :
                  Encountered(b) /\ LenientOnly(b) /\ ~EnclosingIsBold(b)
                  => content_type[b] = ContentValue /\ pc # "failed"

(***************************************************************************)
(* Claims about the secondary filters of find_news_group                   *)
(***************************************************************************)
\* more than 20 percent of the urls of the row have a verb
VerbShareAbove20(row) == 5 * row.urls_with_verbs > row.url_count

NoneAbove20 ==
    \A i \in 1..Len(news_candidates) : ~VerbShareAbove20(news_candidates[i])

\* what a step of a secondary filter does to the candidates
SecondaryFilterStep ==
    pc \in {"verb", "median", "count"} =>
        /\ (Len(news_candidates) <= 1 => news_candidates' = news_candidates)
        /\ (news_candidates # <<>> => news_candidates' # <<>>)
        /\ (pc = "verb" /\ NoneAbove20 => news_candidates' = news_candidates)

\* C23: a secondary filter (verb percentage, median length, url count)
\* changes the candidates only while more than one remains, never makes a
\* non-empty candidate set empty, and the verb filter leaves the set
\* unchanged when no candidate has a verb percentage above 20.
C23_SecondaryFiltersKeepSome == [][SecondaryFilterStep]_vars

\* C23 witness: the verb filter has run on two candidates none of which has
\* a verb percentage above 20, and both are still candidates.
C23_Witness ==
    /\ pc = "median"
    /\ Len(news_candidates) = 2
    /\ NoneAbove20

(***************************************************************************)
(* find_news_group on two snapshots with the same sections in different    *)
(* document order                                                          *)
(***************************************************************************)
\* find_news_group as a function of the snapshot
FindNewsGroup(page) ==
    LET rows == GroupsData(page)
    IN  IF rows = <<>> THEN Raises("urls")
        ELSE LET frame == DropDuplicates(rows)
             IN  IF ~HasMultiLevelColumn(frame) THEN Raises("multi_level_path_pct")
                 ELSE LET candidates ==
                              CountFilter(MedianFilter(VerbFilter(
                                  Rows(frame, PrimaryFilter))))
                      IN  IF Len(candidates) = 1 THEN Returns(candidates[1])
                          ELSE ReturnsNone

PlacedSections == {Place(sec, anc) : sec \in Sections, anc \in Ancestries}

\* the orders of 1..k
Orders(k) == {f \in [1..k -> 1..k] : \A i, j \in 1..k : f[i] = f[j] => i = j}

OrderInit ==
    /\ pc = "first"
    /\ \E k \in 1..MaxSections :
          \E parts \in [1..k -> PlacedSections] :
             \E order \in Orders(k) :
                /\ soup = Flatten(parts)
                /\ second_soup = Flatten([i \in 1..k |-> parts[order[i]]])
    /\ news_result = Pending
    /\ second_result = Pending
    /\ df = Nil /\ news_candidates = Nil
    /\ PruneIdle
    /\ DateIdle
    /\ TitleIdle
    /\ PageIdle
    /\ content_type = Nil /\ skip_remaining = Nil
    /\ processed_elements = Nil /\ target_idx = Nil
    /\ ExtractIdle
    /\ DiscoverIdle
    /\ AddressIdle
    /\ BoilerIdle

OrderFrame ==
    UNCHANGED <<soup, second_soup, df, news_candidates, pruneVars, dateVars,
                titleVars, pageVars, content_type, skip_remaining,
                processed_elements, target_idx, extractVars, discoverVars,
                addressVars, boilerVars>>

\* find_news_group on the first snapshot
ClassifyFirst ==
    /\ pc = "first"
    /\ news_result' = FindNewsGroup(soup)
    /\ pc' = "second"
    /\ UNCHANGED second_result
    /\ OrderFrame

\* find_news_group on the second snapshot
ClassifySecond ==
    /\ pc = "second"
    /\ second_result' = FindNewsGroup(second_soup)
    /\ pc' = "compared"
    /\ UNCHANGED news_result
    /\ OrderFrame

OrderNext == ClassifyFirst \/ ClassifySecond

SpecOrder == OrderInit /\ [][OrderNext]_vars

\* the groups of a snapshot, each as the set of its anchors
GroupSets(page) ==
    LET grouped == GroupedAnchors(page)
    IN  {{grouped[i][k] : k \in 1..Len(grouped[i])} : i \in 1..Len(grouped)}

\* both runs raise the same error, both return None, or both return the
\* group of the same ancestry with the same anchors
SameResult(first, second) ==
    /\ first.outcome = second.outcome
    /\ first.outcome = "raised" => first.key = second.key
    /\ first.outcome = "returned" =>
          /\ first.row.ancestry = second.row.ancestry
          /\ {first.row.a[k] : k \in 1..Len(first.row.a)} =
             {second.row.a[k] : k \in 1..Len(second.row.a)}

\* C24 as stated: two snapshots with the same groups in different document
\* order get the same result, the same group or None in both.
C24_Original ==
    (pc = "compared" /\ GroupSets(soup) = GroupSets(second_soup)) =>
        SameResult(news_result, second_result)

(***************************************************************************)
(* Claims about the order of the navigation attempts                       *)
(***************************************************************************)
\* load-more failed in the current iteration and pagination is next
PaginationPending == IF pc = "pagination" THEN 1 ELSE 0

\* the loop was left by `break`: neither navigation succeeded
LeftByBreak ==
    IF pc = "returned" /\ client_side_pagination = FALSE
                       /\ attempts < max_attempts
    THEN 1 ELSE 0

\* every iteration starts with one load-more call; it ends in one
\* navigation unless both attempts failed, and pagination is called only
\* in iterations whose load-more call failed
NavigationCounts ==
    /\ page_no - 1 = load_more_calls - PaginationPending - LeftByBreak
    /\ pagination_calls + PaginationPending <= load_more_calls

\* what one step of the loop does
NavigationStep ==
    /\ pagination_calls' # pagination_calls =>
          /\ pc = "pagination"
          /\ load_more_calls' = load_more_calls
          /\ pagination_calls' = pagination_calls + 1
    /\ page_no' # page_no =>
          /\ page_no' = page_no + 1
          /\ \/ pc' = "page_raised" /\ news_groups' = news_groups
             \/ /\ pc' = "loop"
                /\ attempts' = attempts + 1
                /\ news_groups' = IF group'.found
                                  THEN Append(news_groups, page_no')
                                  ELSE news_groups
    /\ (pc = "pagination" /\ page_no' = page_no) =>
          pc' = "returned" /\ news_groups' = news_groups

\* C25: in each iteration load-more is tried first and pagination only if
\* load-more did not succeed; if neither succeeds the loop ends and the
\* accumulated groups are returned; each successful navigation is followed
\* by one reclassification, whose group is appended iff it is not None.
C25_NavigationOrder == []NavigationCounts /\ [][NavigationStep]_vars

\* C25 witness: load-more failed and pagination succeeded with a group,
\* then both failed, and the one group was returned before the attempts
\* were used up.
C25_Witness ==
    /\ pc = "returned"
    /\ max_attempts = 2
    /\ attempts = 1
    /\ load_more_calls = 2
    /\ pagination_calls = 2
    /\ news_groups = <<2>>

(***************************************************************************)
(* Claims about the choice among the scored dates                          *)
(***************************************************************************)
\* the patterns for which text node k holds a date not after the
\* processing time: 1 ISO, 2 slash-delimited, 3 month name
PastPatterns(k) ==
    {p \in 1..3 : /\ soup.texts[k].first[p] # Nil
                  /\ ~IsFuture(ParseDate(soup.texts[k].first[p]))}

IsCandidate(k) == PastPatterns(k) # {}

NodeScore(k) ==
    (IF soup.texts[k].around.news_date_class THEN 5 ELSE 0) +
    (IF soup.texts[k].around.pub_indicator THEN 5 ELSE 0)

FirstPattern(k) == CHOOSE p \in PastPatterns(k) : \A q \in PastPatterns(k) : p <= q

HasMaximalScore(k) ==
    \A j \in 1..Len(soup.texts) : IsCandidate(j) => NodeScore(j) <= NodeScore(k)

\* C26 as stated: the labeled text node is a candidate of maximal score
\* and the first such node in document order, whatever patterns matched.
C26_Original ==
    \A k \in 1..Len(soup.texts) :
        (pc = "dated" /\ LabeledText(k)) =>
            /\ IsCandidate(k)
            /\ HasMaximalScore(k)
            /\ \A j \in 1..(k-1) : IsCandidate(j) => NodeScore(j) < NodeScore(k)

\* C26 amended: the labeled text node is a candidate of maximal score; of
\* the candidates with that score it is one whose first matching pattern
\* comes earliest in the order ISO, slash-delimited, month name, and of
\* those the first in document order.
C26_FirstFoundByScan ==
    \A k \in 1..Len(soup.texts) :
        (pc = "dated" /\ LabeledText(k)) =>
            /\ IsCandidate(k)
            /\ HasMaximalScore(k)
            /\ \A j \in 1..Len(soup.texts) :
                  (IsCandidate(j) /\ NodeScore(j) = NodeScore(k)) =>
                      \/ FirstPattern(k) < FirstPattern(j)
                      \/ FirstPattern(k) = FirstPattern(j) /\ k <= j

\* C26 witness: the first text node has a slash-delimited date, the second
\* an ISO date, both with the same score, and the second has the label.
C26_Witness ==
    /\ pc = "dated"
    /\ Len(soup.texts) = 2
    /\ PastPatterns(1) = {2}
    /\ PastPatterns(2) = {1}
    /\ NodeScore(1) = NodeScore(2)
    /\ LabeledText(2)

(***************************************************************************)
(* Claims about tables in the content walk                                 *)
(***************************************************************************)
RECURSIVE WithinTable(_)
\* e has a table among its ancestors below the container
WithinTable(e) ==
    LET above == soup.parent[e]
    IN  IF above = 0 THEN FALSE
        ELSE soup.name[above] = "table" \/ WithinTable(above)

RECURSIVE BearsText(_)
\* e or an element below it holds text
BearsText(e) ==
    \/ soup.text[e] # Nil
    \/ \E c \in 1..DocSize(soup) : soup.parent[c] = e /\ BearsText(c)

TableRoles ==
    {"qw7x_article_table_p9m2", "qw7x_table_header_p9m2", "qw7x_table_cell_p9m2"}

\* the role an element inside a table may have: header for a th with text,
\* cell for a td with text, none otherwise
InteriorRole(e) ==
    \/ content_type[e] = Nil
    \/ /\ content_type[e] = "qw7x_table_header_p9m2"
       /\ soup.name[e] = "th" /\ BearsText(e)
    \/ /\ content_type[e] = "qw7x_table_cell_p9m2"
       /\ soup.name[e] = "td" /\ BearsText(e)

\* C27: no element inside a table has the content role or was visited by
\* the walk; inside a table only th and td cells with text carry a role,
\* the header and the cell role, and a table carries the table role or
\* none; in a marked table every th and td with text has its role.
C27_TablesDiverted ==
    Walking => \A e \in 1..DocSize(soup) :
        /\ WithinTable(e) =>
              /\ content_type[e] # "qw7x_article_content_p9m2"
              /\ (e - 1) \notin processed_elements
              /\ InteriorRole(e)
        /\ soup.name[e] = "table" =>
              /\ content_type[e] \in {Nil, "qw7x_article_table_p9m2"}
              /\ content_type[e] = "qw7x_article_table_p9m2" =>
                    \A c \in 1..DocSize(soup) :
                       (soup.parent[c] = e /\ soup.name[c] \in {"th", "td"}
                                           /\ BearsText(c))
                       => content_type[c] # Nil

\* C27 witness: the walk is over; a table was marked, its td has the cell
\* role, and the paragraph with text inside that td has no role, while a
\* paragraph outside has the content role.
C27_Witness ==
    /\ pc = "marked"
    /\ \E t, c, q, w, o \in 1..DocSize(soup) :
          /\ soup.name[t] = "table" /\ content_type[t] = "qw7x_article_table_p9m2"
          /\ soup.parent[c] = t /\ soup.name[c] = "td"
          /\ content_type[c] = "qw7x_table_cell_p9m2"
          /\ soup.parent[q] = c /\ soup.name[q] = "p" /\ content_type[q] = Nil
          /\ soup.parent[w] = q /\ soup.text[w] # Nil /\ content_type[w] = Nil
          /\ ~WithinTable(o) /\ content_type[o] = "qw7x_article_content_p9m2"

\* C30: once the walk has met a section boundary, no table later in the
\* document has the table role and no element later in the document has
\* the header or the cell role.
C30_TablesStopAtBoundary ==
    Walking => \A b \in 1..DocSize(soup) :
        (/\ Encountered(b)
         /\ \/ soup.text[b] = "Forward-Looking Statements"
            \/ /\ soup.text[b] = "This release contains forward-looking statements"
               /\ soup.name[soup.parent[b]] = "b")
        => \A e \in (b+1)..DocSize(soup) : content_type[e] \notin TableRoles

\* C30 witness: a table before the section boundary was marked, a table
\* with a th and a td with text after it has no role in any of its cells.
C30_Witness ==
    /\ pc = "marked"
    /\ skip_remaining = TRUE
    /\ \E t, b, u, c \in 1..DocSize(soup) :
          /\ t < b /\ b < u
          /\ soup.name[t] = "table" /\ content_type[t] = "qw7x_article_table_p9m2"
          /\ Encountered(b) /\ soup.text[b] = "Forward-Looking Statements"
          /\ soup.name[u] = "table" /\ content_type[u] = Nil
          /\ soup.parent[c] = u /\ soup.name[c] = "th" /\ BearsText(c)
          /\ content_type[c] = Nil

(***************************************************************************)
(* Claims about the urls of the returned group                             *)
(***************************************************************************)
\* the url is the href as it was, if that was absolute, and the href's
\* path under the base url otherwise
ResolvedFrom(url, href) ==
    /\ url.form = "absolute"
    /\ IF href.form = "absolute" THEN url = href
       ELSE url.host = "acme.com" /\ url.path = href.path

\* C28 as stated: every url of a returned group is absolute, being the
\* href itself if that is absolute and the href joined to the base url
\* otherwise, and resolving it again changes nothing.
C28_Original ==
    (pc = "done" /\ news_result.outcome = "returned") =>
        \A k \in 1..Len(news_result.row.urls) :
            /\ ResolvedFrom(news_result.row.urls[k], news_result.row.a[k].href)
            /\ MakeAbsoluteUrl(news_result.row.urls[k]) = news_result.row.urls[k]

(***************************************************************************)
(* create_clean_soup on a document that is the result of create_clean_soup *)
(*                                                                         *)
(* The documents have a body as first element, nav and div elements below  *)
(* it or beside it, and the content label on some of them.                 *)
(***************************************************************************)
BodyDocuments(n) ==
    {[n |-> n, parent |-> p, name |-> t, labels |-> l, present |-> 1..n] :
        p \in Forests(n),
        t \in {f \in [1..n -> {"body", "nav", "div"}] :
                  \A i \in 1..n : f[i] = "body" <=> i = 1},
        l \in [1..n -> {{}, {ContentType}}]}

RepruneInit ==
    /\ pc = "labeled"
    /\ original_soup \in BodyDocuments(MaxPruneNodes + 1)
    /\ clean_soup = Nil
    /\ verify_result = Nil
    /\ ContentIdle
    /\ DateIdle
    /\ TitleIdle
    /\ FinderIdle
    /\ MoreIdle

\* SoupCleaner(clean_soup).create_clean_soup()
CleanAgain ==
    /\ pc = "cleaned"
    /\ second_soup' = clean_soup
    /\ second_result' = CleanCopy(clean_soup)
    /\ pc' = "recleaned"
    /\ UNCHANGED <<original_soup, clean_soup, verify_result, contentVars,
                   dateVars, titleVars, finderVars, extractVars, discoverVars,
                   addressVars, boilerVars>>

RepruneNext == CreateCleanSoup \/ CleanAgain

SpecReprune == RepruneInit /\ [][RepruneNext]_vars

\* C29: pruning the result of a prune removes no further element: the
\* second result has the elements of the first.
C29_PruneIdempotent ==
    pc = "recleaned" =>
        /\ second_result.present = clean_soup.present
        /\ second_result = clean_soup

\* C29 witness: the first prune removed an element and left, below a
\* labeled element, an element without label and structural tag; the
\* second prune left it too.
C29_Witness ==
    /\ pc = "recleaned"
    /\ clean_soup.present # original_soup.present
    /\ \E e \in second_result.present :
          /\ e # 1
          /\ original_soup.labels[e] = {}
          /\ original_soup.name[e] = "div"
          /\ original_soup.parent[e] # 0
          /\ original_soup.labels[original_soup.parent[e]] # {}

=============================================================================
